---- MODULE Spec2Model ----
(***************************************************************************)
(* A model of the britney2 C library (lib/dpkg.c and friends): the         *)
(* per-architecture package universe with its virtual-package index, the   *)
(* backtracking installability check, and the sources note with its undo   *)
(* journal.                                                                *)
(*                                                                         *)
(* Representation choices:                                                 *)
(*  - a C string is a TLA+ string; strcmp is the order of NameOrder;       *)
(*  - a dpkg_package* is an index into PkgTable, a dpkg_source* an index   *)
(*    into SrcTable (pointer equality is index equality);                  *)
(*  - a dpkg_collected_package* is the key under which the collected       *)
(*    package sits in the universe's packagetbl (a universe holds at most  *)
(*    one collected package per name and frees it when it leaves);         *)
(*  - a NULL-terminated list is a sequence, a NULL list is << >>;          *)
(*  - a HASH table is the finite map it implements;                        *)
(*  - a pointer into a list (I1CUR, I1CUTOFF, pointer, last) is the        *)
(*    position of the node it points to, 0 for NULL.                       *)
(***************************************************************************)
EXTENDS Integers, Sequences, FiniteSets, TLC

VARIABLES
    univ,       \* a stand-alone dpkg_packages: [packages, virtualpkgs]
    pc,         \* where checkinstallable is: "idle", "loop" or "done"
    list,       \* the instonelist of the running check, as a sequence of frames
    last,       \* checkinstallable's `last`
    pointer,    \* checkinstallable's `pointer`
    counter,    \* checkinstallable's `counter`
    result,     \* what the last public call returned, and how
    srcsn,      \* the dpkg_sources_note: [sources, pkgs, undo]
    crashed,    \* "no", or why the process stopped (assert/abort/NULL dereference)
    hist,       \* history kept for the properties; the program never reads it
    mem         \* the heap: the allocator's blocks, bitmaps and free lists,
                \* or the list cells of a note and of its snapshots

vars == <<univ, pc, list, last, pointer, counter, result, srcsn, crashed, hist,
          mem>>

(***************************************************************************)
(* Strings and versions                                                    *)
(***************************************************************************)

\* Every package, source and virtual name the model uses, in strcmp order.
NameOrder == <<"a", "b", "b1", "b2", "c", "d1", "d2", "g", "h", "s", "s1", "s2", "x", "z">>

RECURSIVE IndexOf(_, _, _)
IndexOf(seq, e, i) ==
    IF i > Len(seq) THEN 0
    ELSE IF seq[i] = e THEN i
    ELSE IndexOf(seq, e, i + 1)

\* strcmp(l, r): negative, zero or positive.
strcmp(l, r) == IndexOf(NameOrder, l, 1) - IndexOf(NameOrder, r, 1)

\* The relations of a dependency (dependency_relation).
dr_NOOP == 0
dr_LT == 1
dr_LTEQ == 2
dr_EQ == 3
dr_GTEQ == 4
dr_GT == 5

\* A version is a positive integer, and 0 stands for a NULL version pointer.
\* The version oracle orders versions as the integers are ordered.
versioncmp(left, right) ==
    IF left < right THEN -1 ELSE IF left > right THEN 1 ELSE 0

cmpversions(left, op, right) ==
    LET i == versioncmp(left, right) IN
    CASE op = dr_LT -> i < 0
      [] op = dr_LTEQ -> i <= 0
      [] op = dr_EQ -> i = 0
      [] op = dr_GTEQ -> i >= 0
      [] op = dr_GT -> i > 0
      [] OTHER -> FALSE

(***************************************************************************)
(* Packages (struct dpkg_package), immutable after they are read           *)
(***************************************************************************)

\* An unversioned and a versioned dependency atom (struct dependency).
Dep(n) == [package |-> n, op |-> dr_NOOP, version |-> 0]
DepV(n, o, v) == [package |-> n, op |-> o, version |-> v]

\* depends[0..3]: Pre-Depends, Depends, Recommends, Suggests.
dependency_counts == <<1, 1, 0, 0>>

Package(n, v, src, prio, all, pre, dep, rec, con, prov) ==
    [package |-> n, version |-> v, source |-> src, priority |-> prio,
     arch_all |-> all, depends |-> <<pre, dep, rec, << >> >>,
     conflicts |-> con, provides |-> prov]

\* The packages of the model.  1..10 are the binaries the installability
\* check is run on; the later ones belong to the sources of SrcTable.
PkgTable == <<
    \* 1: a  Depends: h | x, d1 | d2
    Package("a", 1, "a", 0, FALSE, << >>,
            << <<Dep("h"), Dep("x")>>, <<Dep("d1"), Dep("d2")>> >>, << >>, << >>, << >>),
    \* 2: h  Depends: g   Provides: x
    Package("h", 1, "h", 0, FALSE, << >>, << <<Dep("g")>> >>, << >>, << >>, <<"x">>),
    \* 3: d1  Conflicts: z
    Package("d1", 1, "d1", 0, FALSE, << >>, << >>, << >>, <<Dep("z")>>, << >>),
    \* 4: d2
    Package("d2", 1, "d2", 0, FALSE, << >>, << >>, << >>, << >>, << >>),
    \* 5: g  Pre-Depends: s
    Package("g", 1, "g", 0, FALSE, << <<Dep("s")>> >>, << >>, << >>, << >>, << >>),
    \* 6: s  Depends: z   Recommends: b
    Package("s", 1, "s", 0, FALSE, << >>, << <<Dep("z")>> >>, << <<Dep("b")>> >>, << >>, << >>),
    \* 7: z
    Package("z", 1, "z", 0, FALSE, << >>, << >>, << >>, << >>, << >>),
    \* 8: c  Depends: d1 | d2, d2 | d1, b1 | b2
    Package("c", 1, "c", 0, FALSE, << >>,
            << <<Dep("d1"), Dep("d2")>>, <<Dep("d2"), Dep("d1")>>,
               <<Dep("b1"), Dep("b2")>> >>, << >>, << >>, << >>),
    \* 9: b1  Depends: z
    Package("b1", 1, "b", 0, FALSE, << >>, << <<Dep("z")>> >>, << >>, << >>, << >>),
    \* 10: b2  Depends: b1 (>= 1)
    Package("b2", 1, "b", 0, FALSE, << >>, << <<DepV("b1", dr_GTEQ, 1)>> >>, << >>, << >>, << >>),
    \* 11, 12: s1 1:  b1 and the arch:all c (Provides: x)
    Package("b1", 1, "s1", 0, FALSE, << >>, << >>, << >>, << >>, << >>),
    Package("c", 1, "s1", 0, TRUE, << >>, << >>, << >>, << >>, <<"x">>),
    \* 13, 14, 15: s1 2:  b1, b2 and the arch:all c
    Package("b1", 2, "s1", 0, FALSE, << >>, << >>, << >>, << >>, << >>),
    Package("b2", 2, "s1", 0, FALSE, << >>, << <<Dep("b1")>> >>, << >>, << >>, << >>),
    Package("c", 2, "s1", 0, TRUE, << >>, << >>, << >>, << >>, << >>),
    \* 16, 17: s2 1:  b2 and b (a higher priority, Provides: x)
    Package("b2", 1, "s2", 0, FALSE, << >>, << >>, << >>, << >>, << >>),
    Package("b", 1, "s2", 1, FALSE, << >>, << >>, << >>, << >>, <<"x">>),
    \* 18, 19: s1 3:  b1 in two versions
    Package("b1", 3, "s1", 0, FALSE, << >>, << >>, << >>, << >>, << >>),
    Package("b1", 2, "s1", 0, FALSE, << >>, << >>, << >>, << >>, << >>),
    \* 20: a  Depends: x
    Package("a", 2, "a", 0, FALSE, << >>, << <<Dep("x")>> >>, << >>, << >>, << >>),
    \* 21: s1 3:  c, no longer arch:all
    Package("c", 3, "s1", 0, FALSE, << >>, << >>, << >>, << >>, << >>),
    \* 22..25: packages that depend on each other in a circle
    \* 22: g  Depends: s
    Package("g", 2, "g", 0, FALSE, << >>, << <<Dep("s")>> >>, << >>, << >>, << >>),
    \* 23: s  Depends: g | z
    Package("s", 2, "s", 0, FALSE, << >>, << <<Dep("g"), Dep("z")>> >>, << >>, << >>, << >>),
    \* 24: z  Depends: s   Conflicts: d1
    Package("z", 2, "z", 0, FALSE, << >>, << <<Dep("s")>> >>, << >>, <<Dep("d1")>>, << >>),
    \* 25: h  Depends: g, d1 | d2
    Package("h", 2, "h", 0, FALSE, << >>,
            << <<Dep("g")>>, <<Dep("d1"), Dep("d2")>> >>, << >>, << >>, << >>),
    \* 26: x  Provides: x
    Package("x", 1, "x", 0, FALSE, << >>, << >>, << >>, << >>, <<"x">>),
    \* 27..31: packages whose Conflicts match a package twice or match the
    \* package itself
    \* 27: a  Depends: d1 | d2, h | b
    Package("a", 3, "a", 0, FALSE, << >>,
            << <<Dep("d1"), Dep("d2")>>, <<Dep("h"), Dep("b")>> >>, << >>, << >>, << >>),
    \* 28: d1  Conflicts: x, h
    Package("d1", 2, "d1", 0, FALSE, << >>, << >>, << >>, <<Dep("x"), Dep("h")>>, << >>),
    \* 29: h  Provides: x
    Package("h", 3, "h", 0, FALSE, << >>, << >>, << >>, << >>, <<"x">>),
    \* 30: d2  Provides: z   Conflicts: z
    Package("d2", 2, "d2", 0, FALSE, << >>, << >>, << >>, <<Dep("z")>>, <<"z">>),
    \* 31: b  Provides: z
    Package("b", 2, "b", 0, FALSE, << >>, << >>, << >>, << >>, <<"z">>)
>>

Pkg(id) == PkgTable[id]

(***************************************************************************)
(* Sequence helpers                                                        *)
(***************************************************************************)

\* seq with e put in so that it becomes element i.
InsertAt(seq, i, e) == SubSeq(seq, 1, i - 1) \o <<e>> \o SubSeq(seq, i, Len(seq))

RemoveAt(seq, i) == SubSeq(seq, 1, i - 1) \o SubSeq(seq, i + 1, Len(seq))

Range(seq) == {seq[i] : i \in 1..Len(seq)}

\* A map without one key.
Without(f, k) == [n \in DOMAIN f \ {k} |-> f[n]]

(***************************************************************************)
(* The universe (struct dpkg_packages): packagetbl and virtualpkgtbl       *)
(***************************************************************************)

UNKNOWN == "UNKNOWN"
YES == "YES"

new_packages == [packages |-> << >>, virtualpkgs |-> << >>]

new_collected_package(id) ==
    [pkg |-> id, installed |-> 0, conflicted |-> 0,
     installable |-> UNKNOWN, mayaffect |-> << >>]

\* packagecmp on two dpkg_package indices: priority, then name.
packagecmp(l, r) ==
    IF Pkg(l).priority < Pkg(r).priority THEN -1
    ELSE IF Pkg(l).priority > Pkg(r).priority THEN 1
    ELSE strcmp(Pkg(l).package, Pkg(r).package)

\* lookup_virtualpkgtbl: the bucket of a name, << >> (NULL) when it has none.
lookup_virtualpkgtbl(vpkgs, name) ==
    IF name \in DOMAIN vpkgs THEN vpkgs[name] ELSE << >>

\* An insertion in front of the entries that compare equal.
RECURSIVE AddtoBeforeEqual(_, _, _, _)
AddtoBeforeEqual(packages, bucket, id, i) ==
    IF i > Len(bucket) THEN i
    ELSE IF packagecmp(id, packages[bucket[i].pkg].pkg) > 0
         THEN AddtoBeforeEqual(packages, bucket, id, i + 1)
         ELSE i

\* The place add_virtualpackage's while loop stops at: the first entry the
\* new provider sorts strictly before, or one past the end.
RECURSIVE AddtoPos(_, _, _, _)
AddtoPos(packages, bucket, id, i) ==
    IF i > Len(bucket) THEN i
    ELSE IF packagecmp(id, packages[bucket[i].pkg].pkg) >= 0
         THEN AddtoPos(packages, bucket, id, i + 1)
         ELSE i

\* add_virtualpackage(vpkgs, package, version, cpkg); packages is the
\* packagetbl through which the providers' dpkg_package is reached.
add_virtualpackage(packages, vpkgs, package, version, cpkg) ==
    LET bucket == lookup_virtualpkgtbl(vpkgs, package)
        value == [version |-> version, pkg |-> cpkg]
        pos == AddtoPos(packages, bucket, packages[cpkg].pkg, 1)
        newlist == InsertAt(bucket, pos, value)
    IN  [n \in DOMAIN vpkgs \cup {package} |->
            IF n = package THEN newlist ELSE vpkgs[n]]

\* The first entry of a bucket that belongs to cpkg, 0 when there is none.
RECURSIVE WherePos(_, _, _)
WherePos(bucket, cpkg, i) ==
    IF i > Len(bucket) THEN 0
    ELSE IF bucket[i].pkg = cpkg THEN i
    ELSE WherePos(bucket, cpkg, i + 1)

\* remove_virtualpackage runs off the end of the bucket (its assertions
\* fail, a NULL pointer is read) when cpkg has no entry under pkgname.
remove_virtualpackage_faults(vpkgs, pkgname, cpkg) ==
    WherePos(lookup_virtualpkgtbl(vpkgs, pkgname), cpkg, 1) = 0

\* A removal that leaves the bucket in the index when it has become empty.
RemoveKeepsBucket(vpkgs, pkgname, cpkg) ==
    LET bucket == lookup_virtualpkgtbl(vpkgs, pkgname)
        pos == WherePos(bucket, cpkg, 1)
    IN  IF pos = 0 THEN vpkgs
        ELSE [vpkgs EXCEPT ![pkgname] = RemoveAt(bucket, pos)]

remove_virtualpackage(vpkgs, pkgname, cpkg) ==
    LET bucket == lookup_virtualpkgtbl(vpkgs, pkgname)
        pos == WherePos(bucket, cpkg, 1)
        newlist == RemoveAt(bucket, pos)
    IN  IF pos = 0 THEN vpkgs
        ELSE IF newlist = << >> THEN Without(vpkgs, pkgname)
        ELSE [vpkgs EXCEPT ![pkgname] = newlist]

RECURSIVE AddProvides(_, _, _, _, _)
AddProvides(packages, vpkgs, provides, cpkg, i) ==
    IF i > Len(provides) THEN vpkgs
    ELSE AddProvides(packages,
                     add_virtualpackage(packages, vpkgs, provides[i], 0, cpkg),
                     provides, cpkg, i + 1)

\* An add_package without the lookup of the name.
AddWithoutLookup(u, id) ==
    LET name == Pkg(id).package
        packages == [n \in DOMAIN u.packages \cup {name} |->
                        IF n = name THEN new_collected_package(id)
                        ELSE u.packages[n]]
        own == add_virtualpackage(packages, u.virtualpkgs, name,
                                  Pkg(id).version, name)
    IN  [packages |-> packages,
         virtualpkgs |-> AddProvides(packages, own, Pkg(id).provides, name, 1)]

\* add_package(pkgs, pkg): nothing when the name is taken.
add_package(u, id) ==
    LET name == Pkg(id).package IN
    IF name \in DOMAIN u.packages THEN u
    ELSE LET packages == [n \in DOMAIN u.packages \cup {name} |->
                             IF n = name THEN new_collected_package(id)
                             ELSE u.packages[n]]
             own == add_virtualpackage(packages, u.virtualpkgs, name,
                                       Pkg(id).version, name)
         IN  [packages |-> packages,
              virtualpkgs |-> AddProvides(packages, own, Pkg(id).provides, name, 1)]

\* A removal that resets no memo.
KeepMemos(packages, mayaffect) == packages

\* A removal that resets every memo.
ResetEveryMemo(packages, mayaffect) ==
    [n \in DOMAIN packages |-> [packages[n] EXCEPT !.installable = UNKNOWN]]

\* The first loop of remove_package: every package named in the removed
\* package's mayaffect list that is (still) in the table goes back to UNKNOWN.
ResetAffected(packages, mayaffect) ==
    [n \in DOMAIN packages |->
        IF n \in Range(mayaffect)
        THEN [packages[n] EXCEPT !.installable = UNKNOWN]
        ELSE packages[n]]

RECURSIVE RemoveProvides(_, _, _, _)
RemoveProvides(vpkgs, provides, cpkg, i) ==
    IF i > Len(provides) THEN vpkgs
    ELSE RemoveProvides(remove_virtualpackage(vpkgs, provides[i], cpkg),
                        provides, cpkg, i + 1)

RECURSIVE RemoveProvidesFaults(_, _, _, _)
RemoveProvidesFaults(vpkgs, provides, cpkg, i) ==
    IF i > Len(provides) THEN FALSE
    ELSE \/ remove_virtualpackage_faults(vpkgs, provides[i], cpkg)
         \/ RemoveProvidesFaults(remove_virtualpackage(vpkgs, provides[i], cpkg),
                                 provides, cpkg, i + 1)

\* A remove_package that leaves the entry in the packagetbl.
RemoveKeepsEntry(u, cpkg) ==
    [u EXCEPT !.virtualpkgs =
        RemoveProvides(remove_virtualpackage(@, Pkg(u.packages[cpkg].pkg).package, cpkg),
                       Pkg(u.packages[cpkg].pkg).provides, cpkg, 1)]

\* remove_package(pkgs, cpkg) for a cpkg that is in the table.
remove_package(u, cpkg) ==
    LET c == u.packages[cpkg]
        reset == ResetAffected(u.packages, c.mayaffect)
        own == remove_virtualpackage(u.virtualpkgs, Pkg(c.pkg).package, cpkg)
    IN  [packages |-> Without(reset, cpkg),
         virtualpkgs |-> RemoveProvides(own, Pkg(c.pkg).provides, cpkg, 1)]

remove_package_faults(u, cpkg) ==
    LET c == u.packages[cpkg]
        own == remove_virtualpackage(u.virtualpkgs, Pkg(c.pkg).package, cpkg)
    IN  \/ remove_virtualpackage_faults(u.virtualpkgs, Pkg(c.pkg).package, cpkg)
        \/ RemoveProvidesFaults(own, Pkg(c.pkg).provides, cpkg, 1)

(***************************************************************************)
(* Installability checking: matching, counters                             *)
(***************************************************************************)

\* get_matching_low: the entries of dep's bucket that satisfy dep, in
\* bucket order (a collpackagelist, here the providers' keys).
RECURSIVE get_matching_low(_, _, _)
get_matching_low(bucket, dep, i) ==
    IF i > Len(bucket) THEN << >>
    ELSE LET add == \/ dep.op = dr_NOOP
                    \/ /\ bucket[i].version # 0
                       /\ cmpversions(bucket[i].version, dep.op, dep.version)
         IN  (IF add THEN <<bucket[i].pkg>> ELSE << >>)
             \o get_matching_low(bucket, dep, i + 1)

\* get_matching(pkgs, depopts): the matches of each atom, one after another.
RECURSIVE get_matching(_, _)
get_matching(u, depopts) ==
    IF depopts = << >> THEN << >>
    ELSE get_matching_low(lookup_virtualpkgtbl(u.virtualpkgs, depopts[1].package),
                          depopts[1], 1)
         \o get_matching(u, Tail(depopts))

\* A caninstall that does not look at the packages cpkg conflicts with.
CanInstallUnseen(u, cpkg) ==
    u.packages[cpkg].installed > 0 \/ u.packages[cpkg].conflicted = 0

\* The collected package cpkg stands for; in the check every key comes out
\* of the virtual index of the same universe.
caninstall(u, cpkg) ==
    LET c == u.packages[cpkg]
        conflicts == get_matching(u, Pkg(c.pkg).conflicts)
    IN  IF c.installed > 0 THEN TRUE
        ELSE IF c.conflicted > 0 THEN FALSE
        ELSE \A i \in 1..Len(conflicts) : u.packages[conflicts[i]].installed = 0

\* The loop `for conf in conflicts: if conf != cpkg: conf->conflicted += d`.
RECURSIVE BumpConflicted(_, _, _, _)
BumpConflicted(packages, conflicts, cpkg, d) ==
    IF conflicts = << >> THEN packages
    ELSE LET conf == conflicts[1] IN
         BumpConflicted(
            IF conf = cpkg THEN packages
            ELSE [packages EXCEPT ![conf].conflicted = @ + d],
            Tail(conflicts), cpkg, d)

\* install(pkgs, cpkg): the packagetbl afterwards.
install(u, cpkg) ==
    LET c == u.packages[cpkg]
        marked == IF c.installed = 0
                  THEN BumpConflicted(u.packages,
                                      get_matching(u, Pkg(c.pkg).conflicts), cpkg, 1)
                  ELSE u.packages
    IN  [marked EXCEPT ![cpkg].installed = @ + 1]

\* An uninstall that leaves the conflicted counters as they are.
UninstallKeepsConflicted(u, cpkg) == [u.packages EXCEPT ![cpkg].installed = @ - 1]

\* uninstall(pkgs, cpkg): the packagetbl afterwards.
uninstall(u, cpkg) ==
    LET dec == [u.packages EXCEPT ![cpkg].installed = @ - 1]
    IN  IF dec[cpkg].installed = 0
        THEN BumpConflicted(dec, get_matching(u, Pkg(dec[cpkg].pkg).conflicts),
                            cpkg, -1)
        ELSE dec

\* The assertion of the loop of install on the packages of conflicts:
\* assert(conf->value->installed == 0).
install_asserts(u, cpkg) ==
    LET c == u.packages[cpkg]
        conflicts == get_matching(u, Pkg(c.pkg).conflicts)
    IN  /\ c.installed = 0 =>
               \A i \in 1..Len(conflicts) :
                   conflicts[i] # cpkg => u.packages[conflicts[i]].installed = 0
        /\ c.conflicted = 0

\* The assertions of the loop of uninstall, one element of conflicts after
\* another: assert(conf->value->installed == 0) and
\* assert(conf->value->conflicted > 0) before the decrement.
RECURSIVE UninstallLoopAsserts(_, _, _)
UninstallLoopAsserts(packages, conflicts, cpkg) ==
    IF conflicts = << >> THEN TRUE
    ELSE LET conf == conflicts[1] IN
         IF conf = cpkg THEN UninstallLoopAsserts(packages, Tail(conflicts), cpkg)
         ELSE /\ packages[conf].installed = 0
              /\ packages[conf].conflicted > 0
              /\ UninstallLoopAsserts(
                     [packages EXCEPT ![conf].conflicted = @ - 1],
                     Tail(conflicts), cpkg)

\* The assertions of uninstall(pkgs, cpkg).
uninstall_asserts(u, cpkg) ==
    LET c == u.packages[cpkg] IN
    /\ c.installed > 0
    /\ c.conflicted = 0
    /\ c.installed = 1 =>
           UninstallLoopAsserts(u.packages,
                                get_matching(u, Pkg(c.pkg).conflicts), cpkg)

(***************************************************************************)
(* The instonelist (the frontier of the search)                            *)
(***************************************************************************)

\* A cutoffX whose frame has been freed.
DANGLING == -1

\* A position after a node has been put in behind position old.
Shift(p, old) == IF p > old THEN p + 1 ELSE p

\* insert_instonelist(old, instone): a new frame right behind the frame at
\* position old; the frames behind it move one place down, and with them
\* every pointer to them.
insert_instonelist(l, old, instone) ==
    LET n == [curX |-> 0, instoneX |-> instone, cutoffX |-> 0, expandedX |-> 0]
        moved == [i \in 1..Len(l) |-> [l[i] EXCEPT !.cutoffX = Shift(@, old)]]
    IN  InsertAt(moved, old + 1, n)

\* A trim that frees no frame.
TrimNothing(l, first) == l

\* trim_instonelist_after(first): the frames behind position first are
\* freed; a cutoffX that pointed to one of them dangles.
trim_instonelist_after(l, first) ==
    [i \in 1..first |->
        [l[i] EXCEPT !.cutoffX = IF @ > first THEN DANGLING ELSE @]]

\* The package I1CUR(frame)->value.
CurValue(frame) == frame.instoneX[frame.curX]

\* A search that never moves on to the next alternative.
NextOfNone(instone, cur) == 0

\* cur->next for a position cur of a collpackagelist.
NextOf(instone, cur) == IF cur < Len(instone) THEN cur + 1 ELSE 0

\* Lines 1163-1177: an already installed alternative if there is one,
\* else the first alternative.
RECURSIVE FirstInstalled(_, _, _)
FirstInstalled(packages, instone, i) ==
    IF i > Len(instone) THEN 0
    ELSE IF packages[instone[i]].installed # 0 THEN i
    ELSE FirstInstalled(packages, instone, i + 1)

ChooseFirst(packages, instone) ==
    LET inst == FirstInstalled(packages, instone, 1) IN
    IF inst # 0 THEN inst
    ELSE IF instone = << >> THEN 0 ELSE 1

\* Lines 1194-1196: skip the alternatives that cannot be installed.
RECURSIVE SkipUninstallable(_, _, _)
SkipUninstallable(u, instone, cur) ==
    IF cur = 0 THEN 0
    ELSE IF caninstall(u, instone[cur]) THEN cur
    ELSE SkipUninstallable(u, instone, NextOf(instone, cur))

\* Lines 1245-1250: thisdep's only package is an alternative of this frame
\* that comes before the current one.
SkippedEarlier(frame, pkgname) ==
    \E x \in 1..(frame.curX - 1) : frame.instoneX[x] = pkgname

\* Lines 1252-1272: `last` still points to the node it pointed to before
\* the new frame went in behind position where, and then moves on to its
\* successor if it has one (`if (I1NEXT(last)) last = I1NEXT(last)`).
Relink(st, where, l2, bother, left) ==
    LET lastnode == IF Len(l2) > Len(st.list) THEN Shift(st.last, where)
                    ELSE st.last
    IN  [list |-> l2,
         last |-> IF lastnode < Len(l2) THEN lastnode + 1 ELSE lastnode,
         bother |-> bother, left |-> left]

\* Lines 1231-1273: thisdep has exactly one package.
ExpandSingle(st, p, expanded, thisdep) ==
    LET frame == st.list[p]
        single == Len(frame.instoneX) = 1
    IN  Relink(st,
               IF single THEN p ELSE frame.cutoffX,
               IF single
               THEN IF expanded # 0 THEN st.list
                    ELSE [insert_instonelist(st.list, p, thisdep)
                             EXCEPT ![p].expandedX = 1]
               ELSE insert_instonelist(st.list, frame.cutoffX, thisdep),
               IF SkippedEarlier(frame, thisdep[1]) THEN 0 ELSE st.bother,
               st.left \/ SkippedEarlier(frame, thisdep[1]))

\* Lines 1228-1280 for the packages thisdep that satisfy one clause.
ExpandMatches(st, p, expanded, thisdep) ==
    IF thisdep = << >> THEN [st EXCEPT !.bother = 0]
    ELSE IF Len(thisdep) = 1 THEN ExpandSingle(st, p, expanded, thisdep)
    ELSE [list |-> insert_instonelist(st.list, st.last, thisdep),
          last |-> st.last + 1, bother |-> st.bother, left |-> st.left]

\* Lines 1226-1280 for one dependency clause.  st is [list, last, bother,
\* left]: left says that the test of lines 1245-1250 has succeeded for a
\* clause of this package; p is pointer and expanded the value
\* I1EXPANDED(pointer) had before the clauses were looked at.
ExpandOne(u, st, p, expanded, clause) ==
    CHOOSE r \in {ExpandMatches(st, p, expanded, thisdep) :
                     thisdep \in {get_matching(u, clause)}} :
        TRUE

RECURSIVE ExpandClauses(_, _, _, _, _)
ExpandClauses(u, st, p, expanded, clauses) ==
    IF clauses = << >> THEN st
    ELSE CHOOSE r \in {ExpandClauses(u, st1, p, expanded, Tail(clauses)) :
                          st1 \in {ExpandOne(u, st, p, expanded, clauses[1])}} :
             TRUE

\* The dependency lists that count, one after another (lines 1221-1225).
RECURSIVE CountedClauses(_, _)
CountedClauses(id, i) ==
    IF i > Len(dependency_counts) THEN << >>
    ELSE (IF dependency_counts[i] # 0 THEN Pkg(id).depends[i] ELSE << >>)
         \o CountedClauses(id, i + 1)

(***************************************************************************)
(* checkinstallable, one iteration of its main loop at a time              *)
(***************************************************************************)

\* The iteration budget of checkinstallable.
Budget == 10000000

\* A re-entry that takes the alternative it had taken before.
SelectAgain(u, l, lst, p) ==
    IF l[p].curX = 0
    THEN [packages |-> u.packages,
          list |-> [l EXCEPT ![p].curX = ChooseFirst(u.packages, l[p].instoneX),
                             ![p].cutoffX = lst],
          last |-> lst]
    ELSE [packages |-> uninstall(u, CurValue(l[p])),
          list |-> trim_instonelist_after(l, l[p].cutoffX),
          last |-> l[p].cutoffX]

\* Lines 1163-1192: choose the alternative to look at.  Gives the
\* packagetbl, the list, last and the frame's cursor afterwards.
Select(u, l, lst, p) ==
    IF l[p].curX = 0
    THEN [packages |-> u.packages,
          list |-> [l EXCEPT ![p].curX = ChooseFirst(u.packages, l[p].instoneX),
                             ![p].cutoffX = lst],
          last |-> lst]
    ELSE LET un == uninstall(u, CurValue(l[p]))
             trimmed == trim_instonelist_after(l, l[p].cutoffX)
             cur == IF un[CurValue(l[p])].installed > 0 THEN 0
                    ELSE NextOf(l[p].instoneX, l[p].curX)
         IN  [packages |-> un,
              list |-> [trimmed EXCEPT ![p].curX = cur],
              last |-> l[p].cutoffX]

\* The re-entry branch frees the frame it works on, or follows a freed
\* cutoffX, when the cutoff is not a live frame at or behind the pointer.
SelectFaults(l, p) ==
    /\ l[p].curX # 0
    /\ ~(l[p].cutoffX \in p..Len(l))

\* Lines 1283-1289: the pointer moves on to the next frame, or stays where
\* it is when a clause cannot be satisfied.
LoopAdvance(p, inst, st) ==
    [packages |-> inst, list |-> st.list, last |-> st.last,
     pointer |-> IF st.bother = 0 THEN p
                 ELSE IF p < Len(st.list) THEN p + 1 ELSE 0,
     brk |-> FALSE, left |-> st.left]

\* Lines 1208-1289: instpkg has been installed, inst is the packagetbl
\* afterwards; its dependencies are expanded if it was not installed before.
LoopExpand(u, p, l1, lst, instpkg, inst) ==
    IF inst[instpkg].installed = 1
    THEN CHOOSE b \in {LoopAdvance(p, inst, st) :
                          st \in {ExpandClauses(
                                     [u EXCEPT !.packages = inst],
                                     [list |-> l1, last |-> lst, bother |-> 1,
                                      left |-> FALSE],
                                     p, l1[p].expandedX,
                                     CountedClauses(inst[instpkg].pkg, 1))}} :
             TRUE
    ELSE [packages |-> inst, list |-> l1, last |-> lst,
          pointer |-> IF p < Len(l1) THEN p + 1 ELSE 0,
          brk |-> FALSE, left |-> FALSE]

\* Lines 1198-1206: no alternative is left and the search steps back (or
\* leaves the loop at the head of the list), else the alternative cur is
\* installed.
LoopInstall(u, p, sel, cur) ==
    IF cur = 0
    THEN [packages |-> sel.packages,
          list |-> [sel.list EXCEPT ![p].curX = 0], last |-> sel.last,
          pointer |-> IF p = 1 THEN p ELSE p - 1, brk |-> (p = 1),
          left |-> FALSE]
    ELSE CHOOSE b \in {LoopExpand(u, p, [sel.list EXCEPT ![p].curX = cur],
                                  sel.last, sel.list[p].instoneX[cur], inst) :
                          inst \in {install(
                                       [u EXCEPT !.packages = sel.packages],
                                       sel.list[p].instoneX[cur])}} :
             TRUE

\* Lines 1194-1196 on what the selection left.
LoopSkip(u, p, sel) ==
    CHOOSE b \in {LoopInstall(u, p, sel, cur) :
                     cur \in {SkipUninstallable(
                                  [u EXCEPT !.packages = sel.packages],
                                  sel.list[p].instoneX, sel.list[p].curX)}} :
        TRUE

\* The body of the main loop (lines 1132-1289) on the state it finds.
\* brk says that the loop was left by the break of line 1199, left that the
\* test of lines 1245-1250 has succeeded in this iteration.
LoopBody(u, l, lst, p) ==
    CHOOSE b \in {LoopSkip(u, p, sel) : sel \in {Select(u, l, lst, p)}} : TRUE

\* Lines 1183-1188: on re-entry the alternative is still installed after its
\* uninstall, and the frame gives up its other alternatives.
GivesUpFrame(u, l, p) ==
    /\ l[p].curX # 0
    /\ uninstall(u, CurValue(l[p]))[CurValue(l[p])].installed > 0

\* Lines 1299-1314: the unwinding after a counter overflow, from frame p
\* back to the head of the list.
RECURSIVE Unwind(_, _, _)
Unwind(u, l, p) ==
    IF p = 0 THEN u.packages
    ELSE IF l[p].curX = 0 THEN Unwind(u, l, p - 1)
    ELSE Unwind([u EXCEPT !.packages = uninstall(u, CurValue(l[p]))], l, p - 1)

\* A success that leaves the packages installed.
SuccessLeavesInstalled(u, l, p, root) == u.packages

\* A success that undoes the installs and notes the root nowhere.
RECURSIVE RecordNowhere(_, _, _, _)
RecordNowhere(u, l, p, root) ==
    IF p = 0 THEN u.packages
    ELSE RecordNowhere([u EXCEPT !.packages = uninstall(u, CurValue(l[p]))],
                       l, p - 1, root)

\* Lines 1324-1338: from `last` back to the head, note the root in the
\* mayaffect list of every package that is installed once, and uninstall.
RECURSIVE RecordSuccess(_, _, _, _)
RecordSuccess(u, l, p, root) ==
    IF p = 0 THEN u.packages
    ELSE LET v == CurValue(l[p])
             noted == IF u.packages[v].installed = 1
                      THEN [u EXCEPT !.packages[v].mayaffect = <<root>> \o @]
                      ELSE u
         IN  RecordSuccess([noted EXCEPT !.packages = uninstall(noted, v)],
                           l, p - 1, root)

\* The packages with installed > 0.
InstalledSet(packages) == {n \in DOMAIN packages : packages[n].installed > 0}

(***************************************************************************)
(* Bounds of the model                                                     *)
(***************************************************************************)

\* How many installability checks one behaviour starts.
MaxCalls == 2

\* The stand-alone universe is built from some binaries (indices of
\* PkgTable) of one of these pools.
SolverPools == {1..7, {3, 4, 7, 8, 9, 10}}

(***************************************************************************)
(* The public calls on a stand-alone universe                              *)
(***************************************************************************)

NoResult == [call |-> "none", arg |-> "", ret |-> 0, how |-> ""]

Returned(call, arg, ret, how) == [call |-> call, arg |-> arg, ret |-> ret, how |-> how]

\* The history a call leaves: the universe it found, one more call made,
\* no pruning rule used yet.
Called(h, u) == [h EXCEPT !.pre = u, !.ncalls = @ + 1, !.pruned = {}]

\* The history of a checkinstallable2(pkgname) that follows a
\* checkinstallable2 of the same name with nothing in between: again holds
\* what that call returned and the universe it had found.
Again(h, pkgname) ==
    [h EXCEPT !.again =
        IF result.call = "checkinstallable2" /\ result.arg = pkgname
        THEN <<[ret |-> result.ret, how |-> result.how, pre |-> h.pre]>>
        ELSE << >>]

\* checkinstallable2(pkgs, pkgname) up to the main loop of checkinstallable
\* (lines 1048-1057 and 1114-1129), with the loop's budget as a parameter.
Check2Start(pkgname, budget) ==
    /\ UNCHANGED mem
    /\ pc = "idle"
    /\ crashed = "no"
    /\ hist.ncalls < MaxCalls
    /\ hist' = Called(Again(hist, pkgname), univ)
    /\ UNCHANGED <<univ, srcsn, crashed>>
    /\ IF pkgname \notin DOMAIN univ.packages
       THEN /\ result' = Returned("checkinstallable2", pkgname, 0, "absent")
            /\ UNCHANGED <<pc, list, last, pointer, counter>>
       ELSE IF univ.packages[pkgname].installable = YES
       THEN /\ result' = Returned("checkinstallable2", pkgname, 1, "memo")
            /\ UNCHANGED <<pc, list, last, pointer, counter>>
       ELSE /\ result' = Returned("checkinstallable2", pkgname, 0, "running")
            /\ list' = insert_instonelist(<< >>, 0, <<pkgname>>)
            /\ last' = 1
            /\ pointer' = 1
            /\ counter' = budget
            /\ pc' = "loop"

\* Any name of the model may be asked for.
CheckInstallable2 ==
    \E pkgname \in Range(NameOrder) : Check2Start(pkgname, Budget)

\* One run of the loop body (lines 1132-1289).
LoopStep ==
    /\ UNCHANGED mem
    /\ UNCHANGED <<result, srcsn>>
    /\ IF SelectFaults(list, pointer)
       THEN /\ crashed' = "checkinstallable: cutoff is not a live frame"
            /\ UNCHANGED <<univ, pc, list, last, pointer, hist>>
       ELSE \E b \in {LoopBody(univ, list, last, pointer)} :
            /\ hist' = [hist EXCEPT !.pruned = @
                           \cup (IF GivesUpFrame(univ, list, pointer)
                                 THEN {"still installed"} ELSE {})
                           \cup (IF b.left THEN {"left behind"} ELSE {})]
            /\ univ' = [univ EXCEPT !.packages = b.packages]
            /\ list' = b.list
            /\ last' = b.last
            /\ pointer' = b.pointer
            /\ pc' = IF b.brk THEN "after" ELSE "loop"
            /\ UNCHANGED crashed

\* The loop test of line 1131 succeeds and the body runs once.
Iterate ==
    /\ pc = "loop"
    /\ crashed = "no"
    /\ counter - 1 > 0
    /\ pointer # 0
    /\ counter' = counter - 1
    /\ LoopStep

\* The loop test of line 1131 fails.
LoopExit ==
    /\ UNCHANGED mem
    /\ pc = "loop"
    /\ crashed = "no"
    /\ ~(counter - 1 > 0 /\ pointer # 0)
    /\ counter' = counter - 1
    /\ pc' = "after"
    /\ UNCHANGED <<univ, list, last, pointer, result, srcsn, crashed, hist>>

\* Lines 1292-1345: what checkinstallable does after the loop.
Finish ==
    /\ UNCHANGED mem
    /\ pc = "after"
    /\ crashed = "no"
    /\ UNCHANGED srcsn
    /\ IF counter = 0 /\ pointer = 0
       THEN \* assert(pointer != NULL) fails; without assertions
            \* I1CUR(pointer) reads through the NULL pointer
            /\ crashed' = "checkinstallable: counter overflow with pointer == NULL"
            /\ UNCHANGED <<univ, pc, list, last, pointer, counter, result, hist>>
       ELSE /\ UNCHANGED crashed
            /\ pc' = "idle"
            /\ list' = << >>
            /\ last' = 0
            /\ pointer' = 0
            /\ counter' = 0
            /\ IF counter = 0
               THEN /\ univ' = [univ EXCEPT !.packages =
                                   Unwind(univ, list,
                                          IF list[pointer].curX = 0
                                          THEN pointer - 1 ELSE pointer)]
                    /\ result' = [result EXCEPT !.ret = 0, !.how = "overflow"]
                    /\ UNCHANGED hist
               ELSE IF pointer = 0
               THEN LET root == CurValue(list[1])
                        yes == [univ EXCEPT !.packages[root].installable = YES]
                    IN  /\ univ' = [univ EXCEPT !.packages =
                                       RecordSuccess(yes, list, last, root)]
                        /\ result' = [result EXCEPT !.ret = 1, !.how = "success"]
                        /\ hist' = [hist EXCEPT !.support =
                                       [n \in DOMAIN @ \cup {root} |->
                                           IF n = root
                                           THEN InstalledSet(univ.packages)
                                           ELSE @[n]],
                                                !.lost = @ \ {root}]
               ELSE /\ UNCHANGED <<univ, hist>>
                    /\ result' = [result EXCEPT !.ret = 0, !.how = "failure"]

(***************************************************************************)
(* The installability check on the universes built from SolverPkgs         *)
(***************************************************************************)

\* The elements of a set of numbers, in increasing order.
RECURSIVE SortedSeq(_)
SortedSeq(S) ==
    IF S = {} THEN << >>
    ELSE LET m == CHOOSE x \in S : \A y \in S : x <= y
         IN  <<m>> \o SortedSeq(S \ {m})

\* get_architecture: a new universe with every binary of ids added.
RECURSIVE AddAll(_, _)
AddAll(u, ids) ==
    IF ids = << >> THEN u
    ELSE AddAll(add_package(u, ids[1]), Tail(ids))

NoNote == [sources |-> << >>, pkgs |-> << >>, undo |-> << >>]

\* The allocator before its first call, and in the specifications that
\* leave allocation out.
NoMem == << >>

\* pre: the universe the last check found; ncalls: the checks started;
\* support: for a root, the packages installed when its memo was set;
\* pruned: the pruning rules the running check has used; before: the sources
\* note the last operation found; nmut: the mutations made; stack: what the
\* sources note looked like before each mutation not yet undone or
\* committed, the latest first; expect: the head of stack at the last undo;
\* nops: the packages added and removed; lost: the roots whose support has
\* lost a package since their memo was set; src, arch: the source (index of
\* SrcTable) and the architecture name the last upgrade was called with;
\* pkg: the package (index of PkgTable) the last add_package was called with;
\* again: when the last checkinstallable2 repeated the call before it, what
\* that call had returned and found.
NoHist ==
    [pre |-> new_packages, ncalls |-> 0, support |-> << >>, pruned |-> {},
     before |-> NoNote, nmut |-> 0, stack |-> << >>, expect |-> << >>,
     nops |-> 0, lost |-> {}, src |-> 0, arch |-> "", pkg |-> 0,
     again |-> << >>]

InitSolver ==
    /\ \E P \in SolverPools : \E S \in SUBSET P :
           univ = AddAll(new_packages, SortedSeq(S))
    /\ pc = "idle"
    /\ list = << >>
    /\ last = 0
    /\ pointer = 0
    /\ counter = 0
    /\ result = NoResult
    /\ srcsn = NoNote
    /\ crashed = "no"
    /\ hist = NoHist
    /\ mem = NoMem

NextSolver ==
    \/ CheckInstallable2
    \/ Iterate
    \/ LoopExit
    \/ Finish

SpecSolver == InitSolver /\ [][NextSolver]_vars

\* Binaries whose Conflicts match a package twice (d1 conflicts with x and
\* with h, and h provides x) or match the package itself (d2 provides z and
\* conflicts with z).
ConflictPool == 27..31

InitConflict ==
    /\ \E P \in SolverPools \cup {ConflictPool} : \E S \in SUBSET P :
           univ = AddAll(new_packages, SortedSeq(S))
    /\ pc = "idle"
    /\ list = << >>
    /\ last = 0
    /\ pointer = 0
    /\ counter = 0
    /\ result = NoResult
    /\ srcsn = NoNote
    /\ crashed = "no"
    /\ hist = NoHist
    /\ mem = NoMem

NextConflict ==
    \/ CheckInstallable2
    \/ Iterate
    \/ LoopExit
    \/ Finish

SpecConflict == InitConflict /\ [][NextConflict]_vars

\* Binaries whose Depends and Conflicts go round in circles: g and s depend
\* on each other, z and d1 conflict with each other.
CyclePool == {3, 4, 22, 23, 24, 25}

InitCycle ==
    /\ \E P \in SolverPools \cup {CyclePool} : \E S \in SUBSET P :
           univ = AddAll(new_packages, SortedSeq(S))
    /\ pc = "idle"
    /\ list = << >>
    /\ last = 0
    /\ pointer = 0
    /\ counter = 0
    /\ result = NoResult
    /\ srcsn = NoNote
    /\ crashed = "no"
    /\ hist = NoHist
    /\ mem = NoMem

\* The loop of line 1131 as `while (pointer)`, without the counter: the
\* body runs once.
IterateUncounted ==
    /\ pc = "loop"
    /\ crashed = "no"
    /\ pointer # 0
    /\ UNCHANGED counter
    /\ LoopStep

\* The loop without the counter is left with pointer == NULL.
LoopExitUncounted ==
    /\ UNCHANGED mem
    /\ pc = "loop"
    /\ crashed = "no"
    /\ pointer = 0
    /\ pc' = "after"
    /\ UNCHANGED <<univ, list, last, pointer, counter, result, srcsn, crashed, hist>>

NextCycle ==
    \/ CheckInstallable2
    \/ IterateUncounted
    \/ LoopExitUncounted
    \/ Finish

\* A check that has been started keeps running: the loop of
\* checkinstallable goes on to its next iteration and the function to its
\* return.
SpecCycle ==
    /\ InitCycle
    /\ [][NextCycle]_vars
    /\ WF_vars(IterateUncounted)
    /\ WF_vars(LoopExitUncounted)
    /\ WF_vars(Finish)

(***************************************************************************)
(* checkinstallable on a list of alternatives                              *)
(***************************************************************************)

\* A test that looks at the memo of the first alternative only.
MemoizedFirst(u, instoneof) == u.packages[instoneof[1]].installable = YES

\* Lines 1116-1124: one of the alternatives has a YES memo.
Memoized(u, instoneof) ==
    \E i \in 1..Len(instoneof) : u.packages[instoneof[i]].installable = YES

\* checkinstallable(pkgs, instoneof) up to its main loop (lines 1114-1129).
CheckStart(instoneof) ==
    /\ UNCHANGED mem
    /\ pc = "idle"
    /\ crashed = "no"
    /\ hist.ncalls < MaxCalls
    /\ hist' = Called(hist, univ)
    /\ UNCHANGED <<univ, srcsn, crashed>>
    /\ IF Memoized(univ, instoneof)
       THEN /\ result' = Returned("checkinstallable", instoneof, 1, "memo")
            /\ UNCHANGED <<pc, list, last, pointer, counter>>
       ELSE /\ result' = Returned("checkinstallable", instoneof, 0, "running")
            /\ list' = insert_instonelist(<< >>, 0, instoneof)
            /\ last' = 1
            /\ pointer' = 1
            /\ counter' = Budget
            /\ pc' = "loop"

\* checkinstallable with two alternatives, packages of the universe.
CheckInstallable ==
    \E n1 \in DOMAIN univ.packages : \E n2 \in DOMAIN univ.packages :
        CheckStart(<<n1, n2>>)

NextAlt ==
    \/ CheckInstallable2
    \/ CheckInstallable
    \/ Iterate
    \/ LoopExit
    \/ Finish

SpecAlt == InitSolver /\ [][NextAlt]_vars

\* The largest budget the check is also run with, next to Budget.
MaxBudget == 8

\* checkinstallable2 with `counter` started at a small number instead of
\* 10000000, so that the overflow branch is reached.
CheckInstallable2Budget ==
    \E pkgname \in Range(NameOrder) : \E b \in 1..MaxBudget :
        Check2Start(pkgname, b)

NextBudget ==
    \/ CheckInstallable2Budget
    \/ Iterate
    \/ LoopExit
    \/ Finish

SpecBudget == InitSolver /\ [][NextBudget]_vars

(***************************************************************************)
(* A universe that packages are added to and removed from                  *)
(***************************************************************************)

\* How many packages one behaviour adds to or removes from the universe.
MaxOps == 4

\* The binaries (indices of PkgTable) that are added.
UnivPkgs == {11, 12, 13, 14, 15, 17, 20}

\* add_package(pkgs, pkg) on the stand-alone universe.
AddPackageOf(id) ==
    /\ UNCHANGED mem
    /\ pc = "idle"
    /\ crashed = "no"
    /\ hist.nops < MaxOps
    /\ univ' = add_package(univ, id)
    /\ result' = Returned("add_package", Pkg(id).package, 1, "done")
    /\ hist' = [hist EXCEPT !.pre = univ, !.nops = @ + 1, !.pkg = id]
    /\ UNCHANGED <<pc, list, last, pointer, counter, srcsn, crashed>>

AddPackage == \E id \in UnivPkgs : AddPackageOf(id)

\* dpkgpackages_remove_binary: remove_package on the package of that name,
\* 0 when there is none.
RemoveBinaryOf(pkg_name) ==
        /\ UNCHANGED mem
        /\ pc = "idle"
        /\ crashed = "no"
        /\ hist.nops < MaxOps
        /\ UNCHANGED <<pc, list, last, pointer, counter, srcsn>>
        /\ IF pkg_name \notin DOMAIN univ.packages
           THEN /\ result' = Returned("remove_binary", pkg_name, 0, "absent")
                /\ hist' = [hist EXCEPT !.pre = univ, !.nops = @ + 1]
                /\ UNCHANGED <<univ, crashed>>
           ELSE IF remove_package_faults(univ, pkg_name)
           THEN /\ crashed' = "remove_virtualpackage: no entry for the package"
                /\ UNCHANGED <<univ, result, hist>>
           ELSE /\ univ' = remove_package(univ, pkg_name)
                /\ result' = Returned("remove_binary", pkg_name, 1, "done")
                /\ hist' = [hist EXCEPT
                               !.pre = univ, !.nops = @ + 1,
                               !.lost = @ \cup {r \in DOMAIN hist.support :
                                                  pkg_name \in hist.support[r]}]
                /\ UNCHANGED crashed

RemoveBinary ==
    \E pkg_name \in {Pkg(id).package : id \in UnivPkgs} :
        RemoveBinaryOf(pkg_name)

InitUniv ==
    /\ univ = new_packages
    /\ pc = "idle"
    /\ list = << >>
    /\ last = 0
    /\ pointer = 0
    /\ counter = 0
    /\ result = NoResult
    /\ srcsn = NoNote
    /\ crashed = "no"
    /\ hist = NoHist
    /\ mem = NoMem

NextUniv ==
    \/ AddPackage
    \/ RemoveBinary
    \/ CheckInstallable2
    \/ Iterate
    \/ LoopExit
    \/ Finish

SpecUniv == InitUniv /\ [][NextUniv]_vars

\* The providers of the virtual package x (indices of PkgTable) that are
\* added and removed: h and c of priority 0, b of priority 1, and x itself.
BucketPkgs == {2, 12, 17, 26}

AddProvider == \E id \in BucketPkgs : AddPackageOf(id)

RemoveProvider ==
    \E pkg_name \in {Pkg(id).package : id \in BucketPkgs} :
        RemoveBinaryOf(pkg_name)

NextBucket ==
    \/ AddProvider
    \/ RemoveProvider

SpecBucket == InitUniv /\ [][NextBucket]_vars

(***************************************************************************)
(* get_matching on the universes of a pool                                 *)
(***************************************************************************)

\* The binaries (indices of PkgTable) the universes are built from: h, c, x
\* and b provide x, x under its own name too; b1 has version 2, b2 version 1.
MatchPool == {2, 10, 12, 13, 17, 26}

\* The clauses get_matching is called with.
MatchClauses ==
    {<<Dep("x")>>,
     <<Dep("h"), Dep("x")>>,
     <<DepV("x", dr_GTEQ, 1)>>,
     <<DepV("b1", dr_GTEQ, 2), Dep("c")>>,
     <<DepV("b1", dr_LT, 2), DepV("b2", dr_EQ, 1)>>,
     <<DepV("c", dr_GT, 1), DepV("x", dr_LTEQ, 1)>>}

InitMatch ==
    /\ \E S \in SUBSET MatchPool : univ = AddAll(new_packages, SortedSeq(S))
    /\ pc = "idle"
    /\ list = << >>
    /\ last = 0
    /\ pointer = 0
    /\ counter = 0
    /\ result = NoResult
    /\ srcsn = NoNote
    /\ crashed = "no"
    /\ hist = NoHist
    /\ mem = NoMem

\* get_matching(pkgs, depopts, line) as checkinstallable, caninstall,
\* install and uninstall call it.
GetMatching ==
    \E depopts \in MatchClauses :
        /\ pc = "idle"
        /\ result' = Returned("get_matching", depopts,
                              get_matching(univ, depopts), "done")
        /\ UNCHANGED <<univ, pc, list, last, pointer, counter, srcsn,
                       crashed, hist, mem>>

NextMatch == GetMatching

SpecMatch == InitMatch /\ [][NextMatch]_vars

(***************************************************************************)
(* freelist.c: bitmaps of unsigned long words, bit 0 the highest bit of    *)
(* word 0                                                                  *)
(***************************************************************************)

\* The bits of an unsigned long (SIZE) in the model.
WordBits == 4

\* The longest bitmap, in words.
MaxWords == 2

RECURSIVE Pow2(_)
Pow2(n) == IF n = 0 THEN 1 ELSE 2 * Pow2(n - 1)

\* ~0ul
AllOnes == Pow2(WordBits) - 1

\* a & b
RECURSIVE BitAnd(_, _)
BitAnd(a, b) ==
    IF a = 0 \/ b = 0 THEN 0
    ELSE (a % 2) * (b % 2) + 2 * BitAnd(a \div 2, b \div 2)

\* x << d and x >> d on an unsigned long, for d < SIZE.
ShiftLeft(x, d) == (x * Pow2(d)) % Pow2(WordBits)
ShiftRight(x, d) == x \div Pow2(d)

\* What a shift by SIZE bits may leave (the C standard leaves it open):
\* the operand, when the machine takes the count modulo SIZE, or 0.
ShiftBySize(x) == {x, 0}

\* The second loop of count_free_bits_back (lines 36-47): the zero bits at
\* the low end of the part off of a word, by bisection.
RECURSIVE BackSearch(_, _, _, _)
BackSearch(word, off, H, add) ==
    LET d == (H - add) \div 2
        offM == BitAnd(ShiftRight(off, d), off)
    IN  IF d > 0
        THEN IF BitAnd(word, offM) # 0
             THEN BackSearch(word, offM, H - d, add)
             ELSE BackSearch(word, off, H, H - d)
        ELSE add

\* The first loop of count_free_bits_back (lines 27-34) from word w (counted
\* from 0) down, and the bisection in the word it stops at.
RECURSIVE BackWords(_, _, _, _, _)
BackWords(bits, w, add, off, cnt) ==
    IF BitAnd(bits[w + 1], off) = 0
    THEN IF w = 0 THEN cnt + add
         ELSE BackWords(bits, w - 1, WordBits, AllOnes, cnt + add)
    ELSE cnt + BackSearch(bits[w + 1], off, add, 0)

\* count_free_bits_back(bits, s); shifted is what `(~0ul) << SIZE` gave
\* when s is a multiple of SIZE.
count_free_bits_back(bits, s, shifted) ==
    BackWords(bits, s \div WordBits, s % WordBits,
              IF s % WordBits = 0 THEN shifted
              ELSE ShiftLeft(AllOnes, WordBits - (s % WordBits)),
              0)

\* The second loop of count_free_bits_after (lines 69-79).
RECURSIVE AfterSearch(_, _, _, _)
AfterSearch(word, off, H, add) ==
    LET d == (H - add) \div 2
        offM == ShiftLeft(off, d)
    IN  IF d > 0
        THEN IF BitAnd(word, offM) # 0
             THEN AfterSearch(word, offM, H - d, add)
             ELSE AfterSearch(word, off, H, H - d)
        ELSE add

\* The first loop of count_free_bits_after (lines 60-67) from word w up to
\* the word end, and the bisection in the word it stops at.
RECURSIVE AfterWords(_, _, _, _, _, _)
AfterWords(bits, w, end, add, off, cnt) ==
    IF BitAnd(bits[w + 1], off) = 0
    THEN IF w + 1 = end THEN cnt + add
         ELSE AfterWords(bits, w + 1, end, WordBits, AllOnes, cnt + add)
    ELSE cnt + AfterSearch(bits[w + 1], off, add, 0)

\* count_free_bits_after(bits, s, end)
count_free_bits_after(bits, s, end) ==
    AfterWords(bits, s \div WordBits, end \div WordBits,
               WordBits - (s % WordBits),
               ShiftRight(AllOnes, s % WordBits), 0)

\* The for loop of find_long_freebits (lines 89-99): the longest run of
\* zero words that a word which is not zero follows.
RECURSIVE ScanWords(_, _, _, _, _, _)
ScanWords(bits, s, i, clen, bstart, blen) ==
    IF i = s THEN [bstart |-> bstart, blen |-> blen]
    ELSE IF bits[i + 1] = 0
    THEN ScanWords(bits, s, i + 1, clen + 1, bstart, blen)
    ELSE IF clen > blen
    THEN ScanWords(bits, s, i + 1, 0, i - clen, clen)
    ELSE ScanWords(bits, s, i + 1, 0, bstart, blen)

\* Lines 103-109 on the run of words run: the bits before and after it.
Widen(bits, s, run, shifted) ==
    LET k == count_free_bits_back(bits, run.bstart * WordBits, shifted)
        bstart == run.bstart * WordBits - k
        blen == run.blen * WordBits + k
    IN  [start |-> bstart,
         size |-> blen + count_free_bits_after(bits, bstart + blen,
                                               s * WordBits)]

\* find_long_freebits(bits, s, &start, &size); out is what *start and
\* *size held at the call.
find_long_freebits(bits, s, out, shifted) ==
    LET run == ScanWords(bits, s, 0, 0, 0, 0)
    IN  IF run.blen = 0 THEN out
        ELSE Widen(bits, s, run, shifted)

\* The bitmaps of one to MaxWords words.
Bitmaps == UNION {[1..s -> 0..AllOnes] : s \in 1..MaxWords}

\* What the caller has in its two variables before the call.
Callers == {[start |-> 0, size |-> 0], [start |-> 1, size |-> 2]}

InitFreebits ==
    /\ mem \in {[bits |-> b] : b \in Bitmaps}
    /\ univ = new_packages
    /\ pc = "idle"
    /\ list = << >>
    /\ last = 0
    /\ pointer = 0
    /\ counter = 0
    /\ result = NoResult
    /\ srcsn = NoNote
    /\ crashed = "no"
    /\ hist = NoHist

\* find_long_freebits as print_memblock_summary calls it.
FindLongFreebits ==
    \E out \in Callers : \E shifted \in ShiftBySize(AllOnes) :
        /\ result' = Returned("find_long_freebits", out,
                              find_long_freebits(mem.bits, Len(mem.bits),
                                                 out, shifted),
                              "done")
        /\ UNCHANGED <<univ, pc, list, last, pointer, counter, srcsn,
                       crashed, hist, mem>>

NextFreebits == FindLongFreebits

SpecFreebits == InitFreebits /\ [][NextFreebits]_vars

(***************************************************************************)
(* memory.c: the arena of blocks with a bitmap of used granules            *)
(***************************************************************************)

ALIGN == 4

\* The words of a block's bitmap that stand for its memory.
BlockWords == 3

\* sizeof(mb->mem) in the model.
MEMBLOCKSIZE == BlockWords * WordBits * ALIGN

ALIGNEDSIZE(size) == ((size + ALIGN - 1) \div ALIGN) * ALIGN

\* a | b and a & ~b
BitOr(a, b) == a + b - BitAnd(a, b)
BitClear(a, b) == a - BitAnd(a, b)

\* SETBIT(s, p) with assert compiled out.
SETBIT(bits, s, p, setp) ==
    [bits EXCEPT ![s \div WordBits + 1] =
        IF setp THEN BitOr(@, p) ELSE BitClear(@, p)]

\* The while loop of mark_bits (lines 142-145).
RECURSIVE MarkWords(_, _, _, _)
MarkWords(bits, nus, rde, setp) ==
    IF nus < rde
    THEN MarkWords(SETBIT(bits, nus, AllOnes, setp), nus + WordBits, rde, setp)
    ELSE bits

\* mark_bits(bits, s, size, setp)
mark_bits(bits, s, size, setp) ==
    LET e == s + size
        rds == s - (s % WordBits)
        nus == rds + WordBits
        rue == ((e + WordBits - 1) \div WordBits) * WordBits
        patl == ShiftRight(AllOnes, s % WordBits)
        patr == ShiftLeft(AllOnes, rue - e)
        rde == e - (e % WordBits)
    IN  IF nus >= e
        THEN SETBIT(bits, rds, BitAnd(patl, patr), setp)
        ELSE MarkWords(SETBIT(SETBIT(bits, rds, patl, setp), rde, patr, setp),
                       nus, rde, setp)

\* The memblock malloc gives block_malloc (lines 228-249); id stands for
\* its address.
new_memblock(id) ==
    [id |-> id, n_bytes |-> 0, size |-> MEMBLOCKSIZE, n_used_chunks |-> 0,
     n_used_bytes |-> 0, n_productive_bytes |-> 0,
     free |-> [w \in 1..(BlockWords + 1) |-> 0]]

\* An address malloc has not given out: the lowest one.
FreshId(blocks) ==
    CHOOSE id \in 1..(Len(blocks) + 1) :
        \A i \in 1..Len(blocks) : blocks[i].id # id

\* Lines 226-252: the block the chunk is cut from, put in front of the
\* list when the head block is missing or too small.
WithRoom(blocks, size) ==
    IF blocks = << >> \/ blocks[1].size < size
    THEN <<new_memblock(FreshId(blocks))>> \o blocks
    ELSE blocks

\* Lines 254-266 on the head block.
CutChunk(mb, size, realsize) ==
    [mb EXCEPT !.free = mark_bits(@, mb.n_bytes \div ALIGN, size \div ALIGN, TRUE),
               !.n_bytes = @ + size,
               !.size = @ - size,
               !.n_used_bytes = @ + size,
               !.n_productive_bytes = @ + realsize,
               !.n_used_chunks = @ + 1]

\* block_malloc(size): the blocks afterwards; the chunk is at offset
\* n_bytes (before the call) of the head block.
block_malloc(blocks, size) ==
    LET room == WithRoom(blocks, ALIGNEDSIZE(size))
    IN  [room EXCEPT ![1] = CutChunk(@, ALIGNEDSIZE(size), size)]

\* find_memblock: the place in the list of the block with this memory.
find_memblock(blocks, id) ==
    CHOOSE i \in 1..Len(blocks) : blocks[i].id = id

\* Lines 309-313: the segment takes in the free granules in front of it.
GrowBack(mb, off, size, shifted) ==
    IF off + ALIGNEDSIZE(size) = mb.n_bytes
    THEN LET k == count_free_bits_back(mb.free, mb.n_bytes \div ALIGN,
                                       shifted) * ALIGN
         IN  [mb EXCEPT !.n_bytes = @ - k, !.size = @ + k]
    ELSE mb

\* Lines 314-318: the segment takes in the free granules behind it.
GrowAfter(mb, off) ==
    IF off = mb.n_bytes + mb.size
    THEN [mb EXCEPT !.size = @ + ALIGN *
              count_free_bits_after(mb.free, (mb.n_bytes + mb.size) \div ALIGN,
                                    MEMBLOCKSIZE \div ALIGN)]
    ELSE mb

\* Lines 322-330: a block without chunks is empty again.
ResetEmpty(mb) ==
    IF mb.n_used_chunks = 0
    THEN [mb EXCEPT !.n_bytes = 0, !.size = MEMBLOCKSIZE,
                    !.n_used_bytes = 0, !.n_productive_bytes = 0]
    ELSE mb

\* free_in_memblock(mb, mem, size)
free_in_memblock(mb, off, size, shifted) ==
    LET marked == [mb EXCEPT
                      !.n_used_chunks = @ - 1,
                      !.n_used_bytes = @ - ALIGNEDSIZE(size),
                      !.free = mark_bits(@, off \div ALIGN,
                                         ALIGNEDSIZE(size) \div ALIGN, FALSE)]
        grown == GrowAfter(GrowBack(marked, off, size, shifted), off)
    IN  ResetEmpty([grown EXCEPT !.n_productive_bytes = @ - size])

\* A release of every block but the head block.
ReleaseBehindHead(blocks, i) == i # 1

\* Line 354: the block goes back to malloc's heap.
Released(blocks, i) == blocks[i].n_used_chunks = 0 /\ i # 1

\* block_free(vmem, size) for the chunk at offset off of block id.
block_free(blocks, id, off, size, shifted) ==
    LET i == find_memblock(blocks, id)
        freed == [blocks EXCEPT ![i] = free_in_memblock(@, off, size, shifted)]
    IN  IF Released(freed, i) THEN RemoveAt(freed, i) ELSE freed

\* How many calls of the allocator one behaviour makes.
MaxMemOps == 5

\* The sizes the caller asks for.
MallocSizes == {3, 8, 22, 28}

\* No block, and no chunk in the caller's hands.
new_arena == [blocks |-> << >>, live |-> {}]

InitArena ==
    /\ mem = new_arena
    /\ univ = new_packages
    /\ pc = "idle"
    /\ list = << >>
    /\ last = 0
    /\ pointer = 0
    /\ counter = 0
    /\ result = NoResult
    /\ srcsn = NoNote
    /\ crashed = "no"
    /\ hist = NoHist

\* block_malloc(size); the caller keeps the chunk and its size, and the
\* number of the call that gave it.
BlockMalloc ==
    \E size \in MallocSizes : \E b \in {block_malloc(mem.blocks, size)} :
        /\ hist.nops < MaxMemOps
        /\ mem' = [blocks |-> b,
                   live |-> mem.live \cup
                      {[id |-> b[1].id, off |-> b[1].n_bytes - ALIGNEDSIZE(size),
                        size |-> size, call |-> hist.nops + 1]}]
        /\ result' = Returned("block_malloc", size,
                              [id |-> b[1].id,
                               off |-> b[1].n_bytes - ALIGNEDSIZE(size)],
                              IF Len(b) > Len(mem.blocks) THEN "new block"
                              ELSE "head block")
        /\ hist' = [hist EXCEPT !.nops = @ + 1]
        /\ UNCHANGED <<univ, pc, list, last, pointer, counter, srcsn, crashed>>

\* block_free(p, size) for a chunk the caller holds, with its size.
BlockFree ==
    \E c \in mem.live : \E shifted \in ShiftBySize(AllOnes) :
        \E b \in {block_free(mem.blocks, c.id, c.off, c.size, shifted)} :
            /\ hist.nops < MaxMemOps
            /\ mem' = [blocks |-> b, live |-> mem.live \ {c}]
            /\ result' = Returned("block_free", c, 0,
                                  IF Len(b) < Len(mem.blocks) THEN "released"
                                  ELSE "kept")
            /\ hist' = [hist EXCEPT !.nops = @ + 1]
            /\ UNCHANGED <<univ, pc, list, last, pointer, counter, srcsn,
                           crashed>>

NextArena ==
    \/ BlockMalloc
    \/ BlockFree

SpecArena == InitArena /\ [][NextArena]_vars

(***************************************************************************)
(* memory3.c: free lists of chunks of one size each, cut from slabs        *)
(***************************************************************************)

\* sizeof (struct chunk)
GRAN == 8

\* The granules of a slab and of the largest pooled chunk in the model.
SlabGrans == 4
MaxChunkGrans == 3

ALLOC_SIZE == SlabGrans * GRAN
MAX_CHUNK_SIZE == MaxChunkGrans * GRAN
NUM_BLOCK_TYPES == MAX_CHUNK_SIZE \div GRAN

\* What the memory of a chunk holds where its next pointer was, once
\* `*(int *)result = ~0` and the caller have written to it.
GARBAGE == -1

\* malloc(ALLOC_SIZE) for the k-th slab: its address.  No slab is at
\* address 0 (NULL), and slabs do not overlap.
SlabAt(k) == k * ALLOC_SIZE

\* The for loop of lines 89-95: the next pointers it writes into the new
\* slab, from the chunk at p on.
RECURSIVE Carve(_, _, _, _)
Carve(next, p, new_block, granmult) ==
    IF p + granmult * GRAN <= new_block + ALLOC_SIZE
    THEN Carve([a \in DOMAIN next \cup {p} |->
                   IF a = p
                   THEN IF p + 2 * granmult * GRAN <= new_block + ALLOC_SIZE
                        THEN p + granmult * GRAN ELSE 0
                   ELSE next[a]],
               p + granmult * GRAN, new_block, granmult)
    ELSE next

\* Lines 79-110: a free list that is empty gets the chunks of a new slab.
Refill(m, granmult) ==
    IF m.heads[granmult] # 0 THEN m
    ELSE [m EXCEPT
             !.next = Carve(@, SlabAt(Len(m.slabs) + 1),
                            SlabAt(Len(m.slabs) + 1), granmult),
             !.heads[granmult] =
                 IF granmult * GRAN <= ALLOC_SIZE
                 THEN SlabAt(Len(m.slabs) + 1) ELSE 0,
             !.slabs = Append(@, granmult)]

\* Lines 128-131: the head of the list is taken off and written to.
TakeHead(m, granmult) ==
    [m EXCEPT !.heads[granmult] = m.next[m.heads[granmult]],
              !.next[m.heads[granmult]] = GARBAGE]

\* block_malloc2(size, pool_id) for a pooled size: the pool afterwards
\* (the chunk is the head the list had after the refill).
block_malloc2(m, size) == TakeHead(Refill(m, size \div GRAN), size \div GRAN)

\* A free that puts the chunk on the list of the next size.
ListOfNextSize(size) == ((size \div GRAN) % NUM_BLOCK_TYPES) + 1

\* Line 179: the free list of a size (free_lists[size/GRAN - 1], lists
\* counted from 1 here).
ListOfSize(size) == size \div GRAN

\* block_free(vmem, size) of memory3.c for a pooled size.
pool_free(m, vmem, size) ==
    [m EXCEPT !.next[vmem] = m.heads[ListOfSize(size)],
              !.heads[ListOfSize(size)] = vmem]

\* How many calls of the pool one behaviour makes.
MaxPoolOps == 5

\* The pooled sizes: the multiples of GRAN up to MAX_CHUNK_SIZE.
PooledSizes == {k * GRAN : k \in 1..NUM_BLOCK_TYPES}

\* free_lists as a static array: every list empty; no slab, and no chunk
\* in the caller's hands.
new_pool ==
    [heads |-> [g \in 1..NUM_BLOCK_TYPES |-> 0], next |-> << >>,
     slabs |-> << >>, live |-> {}]

InitPool ==
    /\ mem = new_pool
    /\ univ = new_packages
    /\ pc = "idle"
    /\ list = << >>
    /\ last = 0
    /\ pointer = 0
    /\ counter = 0
    /\ result = NoResult
    /\ srcsn = NoNote
    /\ crashed = "no"
    /\ hist = NoHist

\* block_malloc2(size, pool); the caller keeps the chunk and its size.
BlockMalloc2 ==
    \E size \in PooledSizes : \E r \in {Refill(mem, size \div GRAN)} :
        /\ hist.nops < MaxPoolOps
        /\ mem' = [TakeHead(r, size \div GRAN) EXCEPT
                      !.live = @ \cup {[addr |-> r.heads[size \div GRAN],
                                        size |-> size]}]
        /\ result' = Returned("block_malloc2", size, r.heads[size \div GRAN],
                              IF Len(r.slabs) > Len(mem.slabs) THEN "new slab"
                              ELSE "free list")
        /\ hist' = [hist EXCEPT !.nops = @ + 1]
        /\ UNCHANGED <<univ, pc, list, last, pointer, counter, srcsn, crashed>>

\* block_free(p, size) for a chunk the caller holds, with its size.
PoolFree ==
    \E c \in mem.live :
        /\ hist.nops < MaxPoolOps
        /\ mem' = [pool_free(mem, c.addr, c.size) EXCEPT !.live = @ \ {c}]
        /\ result' = Returned("block_free", c, 0, "done")
        /\ hist' = [hist EXCEPT !.nops = @ + 1]
        /\ UNCHANGED <<univ, pc, list, last, pointer, counter, srcsn, crashed>>

NextPool ==
    \/ BlockMalloc2
    \/ PoolFree

SpecPool == InitPool /\ [][NextPool]_vars

(***************************************************************************)
(* Sources (struct dpkg_source) as read_directory builds them              *)
(***************************************************************************)

\* The architectures of the sources note (srcsn->archname).
ArchNames == <<"i386", "amd64">>

\* An architecture name the sources note does not have.
UnknownArch == "sparc"

\* A source with the archname list of its owner and one package list per
\* architecture of the owner.
Source(n, v, archname, packages) ==
    [package |-> n, version |-> v, archname |-> archname, packages |-> packages]

\* The sources of the model, from three directories.  Every binary is in the
\* source its Source field names (read_directory, lines 1504-1512).
SrcTable == <<
    \* 1: s1 1
    Source("s1", 1, <<"i386", "amd64">>, << <<11, 12>>, <<12>> >>),
    \* 2: s1 2, from a directory read with the architectures the other way round
    Source("s1", 2, <<"amd64", "i386">>, << <<15>>, <<13, 14, 15>> >>),
    \* 3: s2 1, from a directory read for i386 only
    Source("s2", 1, <<"i386">>, << <<16, 17>> >>),
    \* 4: s1 3, whose Packages_i386 has b1 twice and whose c, built for
    \* amd64 only, is no longer arch:all
    Source("s1", 3, <<"i386", "amd64">>, << <<18, 19>>, <<21>> >>)
>>

Src(id) == SrcTable[id]

(***************************************************************************)
(* The sources note (struct dpkg_sources_note) and its undo journal        *)
(***************************************************************************)

DO_ARCHALL == 0
SKIP_ARCHALL == 1

\* A note's binaries pointer is NULL when the sequence of its lists is empty.
new_source_note(src, n_arches) ==
    [source |-> src, n_arches |-> n_arches,
     binaries |-> [i \in 1..n_arches |-> << >>]]

new_sources_note(archname) ==
    [sources |-> << >>,
     pkgs |-> [i \in 1..Len(archname) |-> new_packages],
     undo |-> << >>]

\* The sources note while an operation works on it: fault says why the
\* process has stopped ("no" while it runs).
Work(sn) == [sources |-> sn.sources, pkgs |-> sn.pkgs, undo |-> sn.undo, fault |-> "no"]

Fault(w, why) == [w EXCEPT !.fault = why]

\* new_op: a new, empty entry at the head of the journal.
new_op(w) == [w EXCEPT !.undo = << << >> >> \o @]

copy_source_note(srcn) ==
    [source |-> srcn.source, n_arches |-> srcn.n_arches,
     binaries |-> [i \in 1..srcn.n_arches |-> srcn.binaries[i]]]

\* The "already saved" test of save_source_note and save_empty_source_note.
AlreadySaved(entry, src) == \E i \in 1..Len(entry) : entry[i].source = src

save_source_note(w, srcn) ==
    IF w.undo = << >> THEN Fault(w, "save_source_note: undo == NULL")
    ELSE IF AlreadySaved(w.undo[1], srcn.source) THEN w
    ELSE [w EXCEPT !.undo[1] = Append(@, copy_source_note(srcn))]

save_empty_source_note(w, src) ==
    IF w.undo = << >> THEN Fault(w, "save_empty_source_note: undo == NULL")
    ELSE IF AlreadySaved(w.undo[1], src) THEN w
    ELSE [w EXCEPT !.undo[1] =
             Append(@, [source |-> src, n_arches |-> 0, binaries |-> << >>])]

\* A loop that takes no package out of the universe.
RemoveEachForgets(r, binaries, i, arch_all) == r

\* The loop of remove_binaries_by_arch from element i of the list on;
\* r is [u, leftovers, fault].
RECURSIVE RemoveEach(_, _, _, _)
RemoveEach(r, binaries, i, arch_all) ==
    IF i > Len(binaries) \/ r.fault # "no" THEN r
    ELSE LET p == binaries[i] IN
         IF arch_all = SKIP_ARCHALL /\ Pkg(p).arch_all
         THEN RemoveEach([r EXCEPT !.leftovers = Append(@, p)],
                         binaries, i + 1, arch_all)
         ELSE IF Pkg(p).package \notin DOMAIN r.u.packages
         THEN [r EXCEPT !.fault = "remove_package: cpkg == NULL"]
         ELSE RemoveEach([r EXCEPT !.u = remove_package(@, Pkg(p).package)],
                         binaries, i + 1, arch_all)

\* remove_binaries_by_arch: the working note and the source note afterwards.
remove_binaries_by_arch(w, srcn, archnum, arch_all) ==
    LET r == RemoveEach([u |-> w.pkgs[archnum], leftovers |-> << >>, fault |-> w.fault],
                        srcn.binaries[archnum], 1, arch_all)
    IN  [w |-> [w EXCEPT !.pkgs[archnum] = r.u, !.fault = r.fault],
         srcn |-> [srcn EXCEPT !.binaries[archnum] = r.leftovers]]

\* A removal that stops after the first architecture.
RemoveFirstArchOnly(w, srcn, i) ==
    remove_binaries_by_arch(w, srcn, 1, DO_ARCHALL).w

\* for (i = 0; i < srcn->n_arches; i++) remove_binaries_by_arch(.., DO_ARCHALL)
\* on a note that is freed afterwards.
RECURSIVE RemoveAllBinaries(_, _, _)
RemoveAllBinaries(w, srcn, i) ==
    IF i > srcn.n_arches THEN w
    ELSE RemoveAllBinaries(remove_binaries_by_arch(w, srcn, i, DO_ARCHALL).w,
                           srcn, i + 1)

\* A displacement that leaves the binary in the list of the note that
\* loses it.
DisplaceKeepsListed(w, archnum, name) ==
    LET cpkg == w.pkgs[archnum].packages[name]
        B == Pkg(cpkg.pkg).source
    IN  IF B \notin DOMAIN w.sources
        THEN Fault(w, "add_binaries_by_arch: srcnB == NULL")
        ELSE [save_source_note(w, w.sources[B])
                 EXCEPT !.pkgs[archnum] = remove_package(@, name)]

\* Lines 1744-1768: the binary's name is taken in the universe; the note
\* of the source that owns the package there gives it up.
Displace(w, archnum, name) ==
    LET cpkg == w.pkgs[archnum].packages[name]
        B == Pkg(cpkg.pkg).source
    IN  IF B \notin DOMAIN w.sources
        THEN Fault(w, "add_binaries_by_arch: srcnB == NULL")
        ELSE LET pos == IndexOf(w.sources[B].binaries[archnum], cpkg.pkg, 1)
                 saved == save_source_note(w, w.sources[B])
                 removed == [saved EXCEPT !.pkgs[archnum] = remove_package(@, name)]
             IN  IF pos = 0
                 THEN Fault(removed, "add_binaries_by_arch: binary not in its source")
                 ELSE [removed EXCEPT !.sources[B].binaries[archnum] = RemoveAt(@, pos)]

\* The loop of add_binaries_by_arch from element i of src's list on; K is
\* the key of srcn in the sourcenotetbl.
RECURSIVE AddEach(_, _, _, _, _, _)
AddEach(w, K, packages, i, archnum, arch_all) ==
    IF i > Len(packages) \/ w.fault # "no" THEN w
    ELSE LET p == packages[i] IN
         IF arch_all = SKIP_ARCHALL /\ Pkg(p).arch_all
         THEN AddEach(w, K, packages, i + 1, archnum, arch_all)
         ELSE LET w1 == IF Pkg(p).package \in DOMAIN w.pkgs[archnum].packages
                        THEN Displace(w, archnum, Pkg(p).package)
                        ELSE w
              IN  IF w1.fault # "no" THEN w1
                  ELSE AddEach([w1 EXCEPT !.pkgs[archnum] = add_package(@, p),
                                          !.sources[K].binaries[archnum] = <<p>> \o @],
                               K, packages, i + 1, archnum, arch_all)

\* An add_binaries_by_arch that takes src's list at the index the
\* architecture has in the sources note.
AddByNoteIndex(w, K, src, archnum, arch_all) ==
    IF archnum > Len(Src(src).packages) THEN w
    ELSE AddEach(w, K, Src(src).packages[archnum], 1, archnum, arch_all)

\* An add_binaries_by_arch that never skips the arch:all binaries.
AddArchAllToo(w, K, src, archnum, arch_all) ==
    LET origarchnum == IndexOf(Src(src).archname, ArchNames[archnum], 1) IN
    IF origarchnum = 0 THEN w
    ELSE AddEach(w, K, Src(src).packages[origarchnum], 1, archnum, DO_ARCHALL)

add_binaries_by_arch(w, K, src, archnum, arch_all) ==
    LET origarchnum == IndexOf(Src(src).archname, ArchNames[archnum], 1) IN
    IF origarchnum = 0 THEN w
    ELSE AddEach(w, K, Src(src).packages[origarchnum], 1, archnum, arch_all)

\* for (i = 0; i < srcsn->n_arches; i++) add_binaries_by_arch(.., DO_ARCHALL)
RECURSIVE AddAllBinaries(_, _, _, _)
AddAllBinaries(w, K, src, i) ==
    IF i > Len(ArchNames) THEN w
    ELSE AddAllBinaries(add_binaries_by_arch(w, K, src, i, DO_ARCHALL), K, src, i + 1)

\* add_sourcenotetbl(srcsn->sources, K, srcn)
add_sourcenotetbl(sources, K, srcn) ==
    [n \in DOMAIN sources \cup {K} |-> IF n = K THEN srcn ELSE sources[n]]

upgrade_source(sn, src) ==
    LET K == Src(src).package
        w1 == new_op(Work(sn))
        w2 == IF K \in DOMAIN w1.sources
              THEN RemoveAllBinaries(
                       save_source_note([w1 EXCEPT !.sources = Without(@, K)],
                                        w1.sources[K]),
                       w1.sources[K], 1)
              ELSE save_empty_source_note(w1, src)
        w3 == [w2 EXCEPT !.sources =
                  add_sourcenotetbl(w2.sources, K,
                                    new_source_note(src, Len(ArchNames)))]
    IN  IF w2.fault # "no" THEN w2 ELSE AddAllBinaries(w3, K, src, 1)

upgrade_arch(sn, src, arch) ==
    LET K == Src(src).package
        w0 == new_op(Work(sn))
    IN  IF K \notin DOMAIN sn.sources
        THEN Fault(w0, "upgrade_arch: srcn == NULL")
        ELSE LET w1 == save_source_note(w0, w0.sources[K])
                 archnum == IndexOf(ArchNames, arch, 1)
             IN  IF archnum = 0 THEN Fault(w1, "die: upgrade_arch: unknown arch")
                 ELSE LET r == remove_binaries_by_arch(w1, w1.sources[K], archnum,
                                                       SKIP_ARCHALL)
                          w2 == [r.w EXCEPT !.sources[K] = r.srcn]
                      IN  IF w2.fault # "no" THEN w2
                          ELSE add_binaries_by_arch(w2, K, src, archnum, SKIP_ARCHALL)

\* remove_source: with no note under the name, copy_source_note reads
\* through the NULL pointer after new_op has pushed the journal entry.
remove_source(sn, name) ==
    LET w0 == new_op(Work(sn)) IN
    IF name \notin DOMAIN sn.sources
    THEN Fault(w0, "remove_source: srcn == NULL")
    ELSE RemoveAllBinaries(
             save_source_note([w0 EXCEPT !.sources = Without(@, name)],
                              sn.sources[name]),
             sn.sources[name], 1)

can_undo(sn) == sn.undo # << >>

\* Lines 1886-1892: the binaries of a restored note go back into the universes.
RECURSIVE AddPackages(_, _, _)
AddPackages(u, binaries, i) ==
    IF i > Len(binaries) THEN u
    ELSE AddPackages(add_package(u, binaries[i]), binaries, i + 1)

\* The while loop of undo_change from element i of the popped entry on.
RECURSIVE UndoEach(_, _, _)
UndoEach(w, srcnl, i) ==
    IF i > Len(srcnl) \/ w.fault # "no" THEN w
    ELSE LET srcnO == srcnl[i]
             K == Src(srcnO.source).package
             w1 == IF K \in DOMAIN w.sources
                   THEN RemoveAllBinaries([w EXCEPT !.sources = Without(@, K)],
                                          w.sources[K], 1)
                   ELSE w
             w2 == IF srcnO.binaries = << >> THEN w1
                   ELSE [w1 EXCEPT
                            !.sources = add_sourcenotetbl(w1.sources, K, srcnO),
                            !.pkgs = [a \in 1..Len(ArchNames) |->
                                         AddPackages(w1.pkgs[a], srcnO.binaries[a], 1)]]
         IN  UndoEach(w2, srcnl, i + 1)

\* An undo that leaves the entry it has replayed in the journal.
UndoKeepsEntry(sn) ==
    IF ~can_undo(sn) THEN Fault(Work(sn), "undo_change: undo == NULL")
    ELSE UndoEach(Work(sn), Head(sn.undo), 1)

undo_change(sn) ==
    IF ~can_undo(sn) THEN Fault(Work(sn), "undo_change: undo == NULL")
    ELSE UndoEach([Work(sn) EXCEPT !.undo = Tail(@)], Head(sn.undo), 1)

\* A commit that discards only the latest journal entry.
CommitDropsLatest(sn) == [sn EXCEPT !.undo = IF @ = << >> THEN @ ELSE Tail(@)]

commit_changes(sn) == [sn EXCEPT !.undo = << >>]

(***************************************************************************)
(* The operations on the sources note                                      *)
(***************************************************************************)

\* How many upgrade_source, upgrade_arch and remove_source calls one
\* behaviour makes.
MaxMut == 3

\* How often x occurs in seq.
Count(seq, x) == Cardinality({i \in 1..Len(seq) : seq[i] = x})

\* What is compared of a sources note: the source of every note, its binary
\* lists as multisets, and what every universe holds.
View(sn) ==
    [sources |-> [n \in DOMAIN sn.sources |->
        [source |-> sn.sources[n].source,
         binaries |-> [a \in 1..sn.sources[n].n_arches |->
             [p \in Range(sn.sources[n].binaries[a]) |->
                 Count(sn.sources[n].binaries[a], p)]]]],
     pkgs |-> [a \in 1..Len(sn.pkgs) |->
        [packages |-> [n \in DOMAIN sn.pkgs[a].packages |-> sn.pkgs[a].packages[n].pkg],
         virtualpkgs |-> sn.pkgs[a].virtualpkgs]]]

\* What an operation on the sources note leaves behind: w is the working
\* note it ends with, h the history.
NoteOp(w, call, arg, h) ==
    /\ UNCHANGED mem
    /\ pc = "idle"
    /\ crashed = "no"
    /\ srcsn' = [sources |-> w.sources, pkgs |-> w.pkgs, undo |-> w.undo]
    /\ crashed' = w.fault
    /\ result' = Returned(call, arg, 0, IF w.fault = "no" THEN "done" ELSE "crashed")
    /\ hist' = [h EXCEPT !.before = srcsn]
    /\ UNCHANGED <<univ, pc, list, last, pointer, counter>>

Mutated(h, sn) == [h EXCEPT !.nmut = @ + 1, !.stack = <<View(sn)>> \o @]

UpgradeSource ==
    \E src \in 1..Len(SrcTable) :
        /\ hist.nmut < MaxMut
        /\ NoteOp(upgrade_source(srcsn, src), "upgrade_source", Src(src).package,
                  Mutated([hist EXCEPT !.src = src, !.arch = ""], srcsn))

UpgradeArch ==
    \E src \in 1..Len(SrcTable) : \E arch \in Range(ArchNames) \cup {UnknownArch} :
        /\ hist.nmut < MaxMut
        /\ NoteOp(upgrade_arch(srcsn, src, arch), "upgrade_arch", Src(src).package,
                  Mutated([hist EXCEPT !.src = src, !.arch = arch], srcsn))

RemoveSource ==
    \E name \in {Src(src).package : src \in 1..Len(SrcTable)} :
        /\ hist.nmut < MaxMut
        /\ NoteOp(remove_source(srcsn, name), "remove_source", name,
                  Mutated(hist, srcsn))

UndoChange ==
    NoteOp(undo_change(srcsn), "undo_change", "",
           [hist EXCEPT !.stack = IF @ = << >> THEN @ ELSE Tail(@),
                        !.expect = IF hist.stack = << >> THEN << >>
                                   ELSE <<Head(hist.stack)>>])

CommitChanges ==
    NoteOp(Work(commit_changes(srcsn)), "commit_changes", "",
           [hist EXCEPT !.stack = << >>])

InitNote ==
    /\ univ = new_packages
    /\ pc = "idle"
    /\ list = << >>
    /\ last = 0
    /\ pointer = 0
    /\ counter = 0
    /\ result = NoResult
    /\ srcsn = new_sources_note(ArchNames)
    /\ crashed = "no"
    /\ hist = [NoHist EXCEPT !.before = new_sources_note(ArchNames)]
    /\ mem = NoMem

NextNote ==
    \/ UpgradeSource
    \/ UpgradeArch
    \/ RemoveSource
    \/ UndoChange
    \/ CommitChanges

SpecNote == InitNote /\ [][NextNote]_vars

(***************************************************************************)
(* What installable means                                                  *)
(***************************************************************************)

\* S is closed and free of conflicts in u: every Pre-Depends and Depends
\* clause of every member is matched by a member, and no Conflicts atom of
\* a member matches another member.
Consistent(u, S) ==
    \A n \in S :
        LET id == u.packages[n].pkg IN
        /\ \A i \in 1..2 : \A k \in 1..Len(Pkg(id).depends[i]) :
               Range(get_matching(u, Pkg(id).depends[i][k])) \cap S # {}
        /\ Range(get_matching(u, Pkg(id).conflicts)) \cap S \subseteq {n}

\* There is a set of packages of u that holds n and can be installed together.
HasSolution(u, n) ==
    /\ n \in DOMAIN u.packages
    /\ \E S \in SUBSET DOMAIN u.packages : n \in S /\ Consistent(u, S)

\* The last call was checkinstallable2 and it has returned.
Check2Returned ==
    /\ pc = "idle"
    /\ crashed = "no"
    /\ result.call = "checkinstallable2"

\* C1 (soundness): when checkinstallable2(u, n) finds n's memo UNKNOWN and
\* returns 1, some set of packages of u that holds n is closed under
\* Pre-Depends and Depends and free of conflicts.
C1_Soundness ==
    (Check2Returned /\ result.how = "success") => HasSolution(univ, result.arg)

\* C2 (completeness): when a set of packages of u that holds n is closed and
\* free of conflicts and the budget is not used up, checkinstallable2(u, n)
\* returns 1.
C2_Completeness ==
    (Check2Returned /\ result.how \in {"success", "failure", "memo"}
        /\ HasSolution(univ, result.arg))
    => result.ret = 1

\* Every installed and conflicted counter of the universe is 0.
CountersZero(u) ==
    \A n \in DOMAIN u.packages :
        u.packages[n].installed = 0 /\ u.packages[n].conflicted = 0

\* C4 (counter restoration): whenever checkinstallable2 has returned, by the
\* memo, with success, with failure or after a counter overflow, every
\* installed and conflicted counter is 0.
C4_CountersRestored == Check2Returned => CountersZero(univ)

\* A check that had backtracked ran out of budget and left every counter
\* at 0.
C4_Witness ==
    /\ Check2Returned
    /\ CountersZero(univ)
    /\ result.how = "overflow"
    /\ hist.pruned # {}

\* The main loop has stopped because the counter reached 0.
StoppedByCounter == pc = "after" /\ counter = 0

\* C9 (budget overrun leaves no trace): when the loop stops because the
\* counter reached 0 the call returns, it returns 0, and the universe
\* (counters, memos and mayaffect lists) is as it was before the call.
C9_OverrunLeavesNoTrace ==
    /\ StoppedByCounter => crashed = "no"
    /\ (Check2Returned /\ result.how = "overflow")
       => (result.ret = 0 /\ univ = hist.pre)

\* A search that used both pruning rules has returned 1.
C2_Witness ==
    /\ Check2Returned
    /\ result.how = "success"
    /\ HasSolution(univ, result.arg)
    /\ hist.pruned = {"still installed", "left behind"}


\* An operation on the sources note has returned.
NoteReturned == pc = "idle" /\ crashed = "no" /\ result.call # "none"
                    /\ result.call # "checkinstallable2"

\* C3 (undo round trip, LIFO): an undo_change leaves the sources note as it
\* was before the latest mutation that had not been undone: the same source
\* names bound to the same sources, the same binaries per architecture as
\* multisets, the same universes.
C3_UndoRoundTrip ==
    (NoteReturned /\ result.call = "undo_change")
    => hist.expect = <<View(srcsn)>>

\* C5 (I3): every binary a source note lists for an architecture is the
\* package the universe of that architecture holds under its name, and its
\* Source field is the name of the note's source.
C5_BinariesPresent ==
    NoteReturned =>
        \A n \in DOMAIN srcsn.sources :
            \A a \in 1..srcsn.sources[n].n_arches :
                \A i \in 1..Len(srcsn.sources[n].binaries[a]) :
                    LET p == srcsn.sources[n].binaries[a][i] IN
                    /\ Pkg(p).package \in DOMAIN srcsn.pkgs[a].packages
                    /\ srcsn.pkgs[a].packages[Pkg(p).package].pkg = p
                    /\ Pkg(p).source = Src(srcsn.sources[n].source).package

\* upgrade_source of s2 has taken b2 from the note of s1 2, which keeps b1.
C5_Witness ==
    /\ NoteReturned
    /\ result.call = "upgrade_source"
    /\ result.arg = "s2"
    /\ DOMAIN srcsn.sources = {"s1", "s2"}
    /\ 14 \in Range(hist.before.sources["s1"].binaries[1])
    /\ Range(srcsn.sources["s1"].binaries[1]) = {13, 15}
    /\ 16 \in Range(srcsn.sources["s2"].binaries[1])

\* How often the notes list package p for architecture a.
Listed(sn, a, p) ==
    Cardinality({ni \in {<<n, i>> : n \in DOMAIN sn.sources, i \in 1..Len(PkgTable)} :
                    /\ ni[2] <= Len(sn.sources[ni[1]].binaries[a])
                    /\ sn.sources[ni[1]].binaries[a][ni[2]] = p})

\* C6 (unique ownership): every package of a universe is listed by exactly
\* one source note for that architecture, exactly once.
C6_UniqueOwner ==
    NoteReturned =>
        \A a \in 1..Len(srcsn.pkgs) :
            \A n \in DOMAIN srcsn.pkgs[a].packages :
                Listed(srcsn, a, srcsn.pkgs[a].packages[n].pkg) = 1

\* An undo_change has given b2 back to the note of s1 2 and dropped the
\* note of s2.
C6_Witness ==
    /\ NoteReturned
    /\ result.call = "undo_change"
    /\ "s2" \in DOMAIN hist.before.sources
    /\ DOMAIN srcsn.sources = {"s1"}
    /\ Range(srcsn.sources["s1"].binaries[1]) = {13, 14, 15}
    /\ srcsn.pkgs[1].packages["b2"].pkg = 14

\* C10 (unknown source): remove_source of a name that has no source note
\* returns to the caller with an error and leaves the notes, the universes
\* and the journal as they were.
C10_RemoveUnknownSource ==
    (result.call = "remove_source" /\ result.arg \notin DOMAIN hist.before.sources)
    => (crashed = "no" /\ result.how = "error" /\ srcsn = hist.before)

\* C7 (memo invalidation): between operations, a package whose memo is YES
\* has had none of the packages removed that were installed when the search
\* set its memo, and they are all in the universe.
C7_MemoInvalidation ==
    (pc = "idle" /\ crashed = "no") =>
        \A r \in DOMAIN univ.packages :
            univ.packages[r].installable = YES =>
                /\ r \in DOMAIN hist.support
                /\ r \notin hist.lost
                /\ hist.support[r] \subseteq DOMAIN univ.packages

\* A package whose memo was YES has lost it with the removal of a package
\* its search had installed.
C7_Witness ==
    /\ pc = "idle"
    /\ result.call = "remove_binary"
    /\ result.ret = 1
    /\ \E r \in DOMAIN univ.packages :
          /\ r \in DOMAIN hist.pre.packages
          /\ hist.pre.packages[r].installable = YES
          /\ univ.packages[r].installable = UNKNOWN
          /\ result.arg \in hist.support[r]

\* The bucket of name holds an entry for cpkg with this version.
InBucket(u, name, cpkg, version) ==
    \E i \in 1..Len(lookup_virtualpkgtbl(u.virtualpkgs, name)) :
        lookup_virtualpkgtbl(u.virtualpkgs, name)[i] = [version |-> version, pkg |-> cpkg]

\* C8 (I4, both ways): every package has an entry with its version in the
\* bucket of its name and an entry without version in the bucket of every
\* name it provides; every entry of every bucket belongs to a package of
\* the universe that has or provides the name; no bucket is empty.
C8_VirtualIndex ==
    /\ \A n \in DOMAIN univ.packages :
          LET p == Pkg(univ.packages[n].pkg) IN
          /\ InBucket(univ, p.package, n, p.version)
          /\ \A k \in 1..Len(p.provides) : InBucket(univ, p.provides[k], n, 0)
    /\ \A name \in DOMAIN univ.virtualpkgs :
          /\ univ.virtualpkgs[name] # << >>
          /\ \A i \in 1..Len(univ.virtualpkgs[name]) :
                LET e == univ.virtualpkgs[name][i] IN
                /\ e.pkg \in DOMAIN univ.packages
                /\ \/ e.pkg = name /\ e.version = Pkg(univ.packages[e.pkg].pkg).version
                   \/ name \in Range(Pkg(univ.packages[e.pkg].pkg).provides) /\ e.version = 0

\* One of two providers of x has been removed and the other is still there.
C8_Witness ==
    /\ pc = "idle"
    /\ result.call = "remove_binary"
    /\ result.ret = 1
    /\ Len(lookup_virtualpkgtbl(hist.pre.virtualpkgs, "x")) = 2
    /\ Len(lookup_virtualpkgtbl(univ.virtualpkgs, "x")) = 1
    /\ result.arg \notin DOMAIN univ.virtualpkgs

\* C11 (upgrade_arch on a bad argument): upgrade_arch with an architecture
\* the sources note does not have, or for a source that has no note, returns
\* to the caller; it has then either pushed one journal entry or changed
\* nothing, and with the unknown architecture it has changed nothing: notes,
\* universes and journal are as before the call.
C11_UpgradeArchAtomic ==
    (/\ result.call = "upgrade_arch"
     /\ \/ hist.arch \notin Range(ArchNames)
        \/ result.arg \notin DOMAIN hist.before.sources)
    => /\ crashed = "no"
       /\ \/ srcsn = hist.before
          \/ Len(srcsn.undo) = Len(hist.before.undo) + 1
       /\ hist.arch \notin Range(ArchNames) => srcsn = hist.before

\* The binaries source src has for the a-th architecture of the sources
\* note (the architectures are matched by name).
SrcBinaries(src, a) ==
    LET origarchnum == IndexOf(Src(src).archname, ArchNames[a], 1) IN
    IF origarchnum = 0 THEN << >> ELSE Src(src).packages[origarchnum]

\* The names of the packages of a list.
NamesOf(binaries) == {Pkg(binaries[i]).package : i \in 1..Len(binaries)}

\* The list without the packages that have one of the names.
RECURSIVE Minus(_, _)
Minus(binaries, names) ==
    IF binaries = << >> THEN << >>
    ELSE (IF Pkg(Head(binaries)).package \in names THEN << >>
          ELSE <<Head(binaries)>>) \o Minus(Tail(binaries), names)

\* Every binary src has for architecture a is the package the universe of a
\* holds under its name, and the note under K lists it for a.
StoredAndListed(sn, K, src, a) ==
    \A i \in 1..Len(SrcBinaries(src, a)) :
        LET p == SrcBinaries(src, a)[i] IN
        /\ Pkg(p).package \in DOMAIN sn.pkgs[a].packages
        /\ sn.pkgs[a].packages[Pkg(p).package].pkg = p
        /\ p \in Range(sn.sources[K].binaries[a])

\* Every note but the one under K was there before and lists for
\* architecture a what it listed before, less the names src brings for a.
OthersGiveWay(sn, before, K, src, a) ==
    \A n \in DOMAIN sn.sources \ {K} :
        /\ n \in DOMAIN before.sources
        /\ sn.sources[n].source = before.sources[n].source
        /\ sn.sources[n].binaries[a]
              = Minus(before.sources[n].binaries[a], NamesOf(SrcBinaries(src, a)))

\* C12 (postcondition of upgrade_source): after upgrade_source(src) the note
\* under src's name refers to src; for every architecture every binary of
\* src is the package the universe holds under its name and is listed by
\* the note; every other note lists what it listed before less the names
\* src brings for that architecture.
C12_UpgradeSourcePost ==
    (NoteReturned /\ result.call = "upgrade_source") =>
        LET K == Src(hist.src).package IN
        /\ K \in DOMAIN srcsn.sources
        /\ srcsn.sources[K].source = hist.src
        /\ \A a \in 1..Len(ArchNames) :
              /\ StoredAndListed(srcsn, K, hist.src, a)
              /\ OthersGiveWay(srcsn, hist.before, K, hist.src, a)

\* The i-th binary of the list is the last one of its name.
LastOfName(binaries, i) ==
    \A j \in (i + 1)..Len(binaries) :
        Pkg(binaries[j]).package # Pkg(binaries[i]).package

\* Every binary src has for architecture a that is the last of its name in
\* src's list is the package the universe of a holds under its name, and the
\* note under K lists it for a.
LastStoredAndListed(sn, K, src, a) ==
    \A i \in 1..Len(SrcBinaries(src, a)) :
        LET p == SrcBinaries(src, a)[i] IN
        LastOfName(SrcBinaries(src, a), i) =>
            /\ Pkg(p).package \in DOMAIN sn.pkgs[a].packages
            /\ sn.pkgs[a].packages[Pkg(p).package].pkg = p
            /\ p \in Range(sn.sources[K].binaries[a])

\* C12 (as it holds): the postcondition of upgrade_source(src), where of the
\* binaries src has under one name for one architecture the last one is
\* stored and listed.
C12_UpgradeSourcePostLast ==
    (NoteReturned /\ result.call = "upgrade_source") =>
        LET K == Src(hist.src).package IN
        /\ K \in DOMAIN srcsn.sources
        /\ srcsn.sources[K].source = hist.src
        /\ \A a \in 1..Len(ArchNames) :
              /\ LastStoredAndListed(srcsn, K, hist.src, a)
              /\ OthersGiveWay(srcsn, hist.before, K, hist.src, a)

\* upgrade_source of s2 1 has returned: its b2 has replaced the b2 that the
\* note of s1 2 held for i386, and that note has kept its other binaries.
C12_Witness ==
    /\ NoteReturned
    /\ result.call = "upgrade_source"
    /\ hist.src = 3
    /\ "s1" \in DOMAIN hist.before.sources
    /\ hist.before.sources["s1"].binaries[1] = <<15, 14, 13>>
    /\ srcsn.sources["s1"].binaries[1] = <<15, 13>>
    /\ srcsn.pkgs[1].packages["b2"].pkg = 16
    /\ 16 \in Range(srcsn.sources["s2"].binaries[1])

\* The packages of a list that are (all = TRUE) or are not (all = FALSE)
\* arch:all.
ArchAllOf(binaries, all) ==
    {binaries[i] : i \in {j \in 1..Len(binaries) : Pkg(binaries[j]).arch_all = all}}

\* An upgrade_arch for an architecture of the sources note has returned;
\* the number of that architecture.
UpgradeArchReturned == NoteReturned /\ result.call = "upgrade_arch"

UpgradedArch == IndexOf(ArchNames, hist.arch, 1)

\* The universes and the binary lists of the architectures other than a
\* are as they were.
OtherArchesKept(sn, before, a) ==
    /\ DOMAIN sn.sources = DOMAIN before.sources
    /\ \A b \in 1..Len(ArchNames) : b # a =>
          /\ sn.pkgs[b] = before.pkgs[b]
          /\ \A n \in DOMAIN sn.sources :
                sn.sources[n].binaries[b] = before.sources[n].binaries[b]

\* C13 (frame of upgrade_arch): after upgrade_arch(src, arch) the universes
\* and binary lists of the other architectures are unchanged, every
\* arch:all binary of the universe of arch is still there and still listed
\* by the note that listed it, and the binaries of the note of src's name
\* for arch that are not arch:all are exactly those of src for arch.
C13_UpgradeArchFrame ==
    UpgradeArchReturned =>
        LET a == UpgradedArch
            K == result.arg
        IN  /\ OtherArchesKept(srcsn, hist.before, a)
            /\ \A n \in DOMAIN hist.before.sources :
                  \A p \in ArchAllOf(hist.before.sources[n].binaries[a], TRUE) :
                      /\ Pkg(p).package \in DOMAIN srcsn.pkgs[a].packages
                      /\ srcsn.pkgs[a].packages[Pkg(p).package].pkg = p
                      /\ p \in Range(srcsn.sources[n].binaries[a])
            /\ ArchAllOf(srcsn.sources[K].binaries[a], FALSE)
                  = ArchAllOf(SrcBinaries(hist.src, a), FALSE)

\* The binaries of the list that are not arch:all and are the last of
\* their name among those.
LastNotArchAll(binaries) ==
    {binaries[i] : i \in {j \in 1..Len(binaries) :
        /\ ~Pkg(binaries[j]).arch_all
        /\ \A k \in (j + 1)..Len(binaries) :
              Pkg(binaries[k]).arch_all
              \/ Pkg(binaries[k]).package # Pkg(binaries[j]).package}}

\* C13 (as it holds): after upgrade_arch(src, arch) the other architectures
\* are unchanged; an arch:all binary of the universe of arch is still there
\* and still listed by its note unless src has a binary of its name for arch
\* that is not arch:all; and the binaries of the note for arch that are not
\* arch:all are those of src for arch, the last one of each name.
C13_UpgradeArchFrameLast ==
    UpgradeArchReturned =>
        LET a == UpgradedArch
            K == result.arg
            taken == NamesOf(SrcBinaries(hist.src, a))
                        \ {Pkg(p).package : p \in ArchAllOf(SrcBinaries(hist.src, a), TRUE)}
        IN  /\ OtherArchesKept(srcsn, hist.before, a)
            /\ \A n \in DOMAIN hist.before.sources :
                  \A p \in ArchAllOf(hist.before.sources[n].binaries[a], TRUE) :
                      Pkg(p).package \notin taken =>
                          /\ Pkg(p).package \in DOMAIN srcsn.pkgs[a].packages
                          /\ srcsn.pkgs[a].packages[Pkg(p).package].pkg = p
                          /\ p \in Range(srcsn.sources[n].binaries[a])
            /\ ArchAllOf(srcsn.sources[K].binaries[a], FALSE)
                  = LastNotArchAll(SrcBinaries(hist.src, a))

\* upgrade_arch(s1 2, i386) on the note of s1 1: the arch:all c of s1 1
\* has stayed, b1 has been replaced, b2 has come, and amd64 is untouched.
C13_Witness ==
    /\ UpgradeArchReturned
    /\ hist.src = 2
    /\ UpgradedArch = 1
    /\ Range(hist.before.sources["s1"].binaries[1]) = {11, 12}
    /\ Range(srcsn.sources["s1"].binaries[1]) = {12, 13, 14}
    /\ srcsn.pkgs[1].packages["c"].pkg = 12
    /\ srcsn.pkgs[2] = hist.before.pkgs[2]
    /\ srcsn.pkgs[2].packages["c"].pkg = 12

\* Package p is what some universe of sn holds under its name.
InSomeUniverse(sn, p) ==
    \E b \in 1..Len(sn.pkgs) :
        /\ Pkg(p).package \in DOMAIN sn.pkgs[b].packages
        /\ sn.pkgs[b].packages[Pkg(p).package].pkg = p

\* C14 (postcondition of remove_source): remove_source(name) for a name
\* that had a note returns, and then no note has that name, none of the binaries the
\* note held is in a universe, every other note is as it was and its
\* binaries are still in their universes, and the journal has one more
\* entry, which holds a copy of the removed note and nothing else.
C14_RemoveSourcePost ==
    (/\ result.call = "remove_source"
     /\ result.arg \in DOMAIN hist.before.sources)
    => LET old == hist.before.sources[result.arg] IN
       /\ crashed = "no"
       /\ result.arg \notin DOMAIN srcsn.sources
       /\ \A a \in 1..old.n_arches : \A p \in Range(old.binaries[a]) :
             ~InSomeUniverse(srcsn, p)
       /\ srcsn.sources = Without(hist.before.sources, result.arg)
       /\ \A n \in DOMAIN srcsn.sources : \A a \in 1..Len(ArchNames) :
             \A p \in Range(srcsn.sources[n].binaries[a]) :
                 srcsn.pkgs[a].packages[Pkg(p).package]
                    = hist.before.pkgs[a].packages[Pkg(p).package]
       /\ srcsn.undo = << <<copy_source_note(old)>> >> \o hist.before.undo

\* remove_source(s1) has taken the note of s1 2 with its arch:all c out of
\* both universes and has left the note of s2 1 and its binaries.
C14_Witness ==
    /\ NoteReturned
    /\ result.call = "remove_source"
    /\ result.arg = "s1"
    /\ "s1" \in DOMAIN hist.before.sources
    /\ hist.before.sources["s1"].source = 2
    /\ hist.before.pkgs[2].packages["c"].pkg = 15
    /\ DOMAIN srcsn.sources = {"s2"}
    /\ DOMAIN srcsn.pkgs[1].packages = {"b", "b2"}
    /\ DOMAIN srcsn.pkgs[2].packages = {}
    /\ Len(srcsn.undo) = Len(hist.before.undo) + 1

\* C15 (add is idempotent, the first writer wins): add_package of a package
\* whose name the universe already holds leaves the universe as it was: the
\* stored package, the packages map, every bucket, every memo and counter.
C15_AddFirstWriterWins ==
    (/\ pc = "idle"
     /\ result.call = "add_package"
     /\ result.arg \in DOMAIN hist.pre.packages)
    => (crashed = "no" /\ univ = hist.pre)

\* c 1, which provides x, was added to a universe that held c 2, which
\* does not, and a package with a YES memo: nothing has changed.
C15_Witness ==
    /\ pc = "idle"
    /\ result.call = "add_package"
    /\ hist.pkg = 12
    /\ "c" \in DOMAIN hist.pre.packages
    /\ hist.pre.packages["c"].pkg = 15
    /\ univ = hist.pre
    /\ lookup_virtualpkgtbl(univ.virtualpkgs, "x") = << >>
    /\ \E n \in DOMAIN univ.packages : univ.packages[n].installable = YES

\* A remove_binary of a name the universe does not hold has returned 0 and
\* has left the universe as it was; one that has returned 1 has left a
\* universe that does not hold the name.
RemoveAbsentIsNoop ==
    (pc = "idle" /\ result.call = "remove_binary") =>
        /\ result.arg \notin DOMAIN hist.pre.packages
              => (crashed = "no" /\ result.ret = 0 /\ univ = hist.pre)
        /\ (crashed = "no" /\ result.ret = 1)
              => result.arg \notin DOMAIN univ.packages

\* A remove_binary that follows a successful remove_binary of the same name
\* returns 0 and changes nothing.
SecondRemoveIsNoop ==
    (/\ result.call = "remove_binary"
     /\ result.ret = 1
     /\ hist'.nops = hist.nops + 1
     /\ result'.call = "remove_binary"
     /\ result'.arg = result.arg)
    => (result'.ret = 0 /\ univ' = univ /\ crashed' = "no")

\* C16 (remove_binary of an absent name): remove_binary(u, name) for a name
\* not in u returns 0 and leaves the packages map, the virtual index and
\* every memo as they were; so does a second remove_binary of a name right
\* after a first one.
C16_RemoveAbsent == []RemoveAbsentIsNoop /\ [][SecondRemoveIsNoop]_vars

\* remove_binary of b1 has returned 0 on a universe that has lost b1 (b2,
\* whose memo had needed it, is back to UNKNOWN) and holds other packages.
C16_Witness ==
    /\ pc = "idle"
    /\ result.call = "remove_binary"
    /\ result.arg = "b1"
    /\ result.ret = 0
    /\ univ = hist.pre
    /\ "b2" \in hist.lost
    /\ "b2" \in DOMAIN univ.packages

\* C17 (commit_changes): after commit_changes the journal is empty (can_undo
\* gives 0) and every note and universe is as it was; a sources note that
\* no operation has been called on has an empty journal.
C17_CommitEmptiesJournal ==
    /\ (pc = "idle" /\ result.call = "commit_changes") =>
          /\ crashed = "no"
          /\ srcsn.undo = << >>
          /\ ~can_undo(srcsn)
          /\ srcsn.sources = hist.before.sources
          /\ srcsn.pkgs = hist.before.pkgs
    /\ (result.call = "none" /\ srcsn # NoNote) =>
          (srcsn = new_sources_note(ArchNames) /\ ~can_undo(srcsn))

\* A commit has discarded a journal of two entries and has left two notes
\* and their binaries.
C17_Witness ==
    /\ pc = "idle"
    /\ result.call = "commit_changes"
    /\ Len(hist.before.undo) = 2
    /\ srcsn.undo = << >>
    /\ DOMAIN srcsn.sources = {"s1", "s2"}
    /\ srcsn.pkgs = hist.before.pkgs
    /\ DOMAIN srcsn.pkgs[1].packages # {}

\* The mutations made since the last commit (or since the sources note was
\* made) less the undos since then.
OpenMutations == Len(hist.stack)

\* A call with arguments the operation is made for: upgrade_source of a
\* source, upgrade_arch for a source that has a note and an architecture of
\* the sources note, remove_source of a name that has a note, undo_change
\* while can_undo holds.
ProperCall ==
    \/ result.call \in {"upgrade_source", "commit_changes"}
    \/ /\ result.call = "upgrade_arch"
       /\ result.arg \in DOMAIN hist.before.sources
       /\ hist.arch \in Range(ArchNames)
    \/ /\ result.call = "remove_source"
       /\ result.arg \in DOMAIN hist.before.sources
    \/ /\ result.call = "undo_change"
       /\ can_undo(hist.before)

\* C18 (journal depth): a proper call returns; between calls the journal
\* has one entry for every mutation since the last commit that has not been
\* undone, and can_undo holds exactly when there is such a mutation.
C18_JournalDepth ==
    /\ ProperCall => crashed = "no"
    /\ (pc = "idle" /\ crashed = "no") =>
          /\ Len(srcsn.undo) = OpenMutations
          /\ can_undo(srcsn) <=> OpenMutations > 0

\* After three mutations and undos the journal has one entry left.
C18_Witness ==
    /\ pc = "idle"
    /\ crashed = "no"
    /\ result.call = "undo_change"
    /\ hist.nmut = 3
    /\ Len(srcsn.undo) = 1
    /\ OpenMutations = 1
    /\ can_undo(srcsn)

\* The alternatives the last installability check was called with.
Alternatives ==
    IF result.call = "checkinstallable2" THEN {result.arg} ELSE Range(result.arg)

\* The last call was an installability check, and one of its alternatives
\* had a YES memo when it was made.
CalledOnMemo ==
    /\ result.call \in {"checkinstallable2", "checkinstallable"}
    /\ \E n \in Alternatives :
          /\ n \in DOMAIN hist.pre.packages
          /\ hist.pre.packages[n].installable = YES

\* C19 (memo short-circuit): a check called with an alternative whose memo
\* is YES has returned 1 without entering the search loop, and the universe
\* (counters, memos, mayaffect lists) is as it was when it was called.
C19_MemoShortCircuit ==
    CalledOnMemo =>
        /\ pc = "idle"
        /\ crashed = "no"
        /\ result.how = "memo"
        /\ result.ret = 1
        /\ univ = hist.pre

\* checkinstallable has returned 1 on the memo of its second alternative;
\* the memo of the first is UNKNOWN.
C19_Witness ==
    /\ pc = "idle"
    /\ result.call = "checkinstallable"
    /\ result.how = "memo"
    /\ result.ret = 1
    /\ univ.packages[result.arg[1]].installable = UNKNOWN
    /\ univ.packages[result.arg[2]].installable = YES
    /\ univ = hist.pre

\* Universes u and v hold the same packages with the same installed and
\* conflicted counters and have the same virtual index.
SameButMemos(u, v) ==
    /\ DOMAIN u.packages = DOMAIN v.packages
    /\ u.virtualpkgs = v.virtualpkgs
    /\ \A n \in DOMAIN u.packages :
          /\ u.packages[n].pkg = v.packages[n].pkg
          /\ u.packages[n].installed = v.packages[n].installed
          /\ u.packages[n].conflicted = v.packages[n].conflicted

\* C20 (solver determinism): when checkinstallable2(u, n) is called twice
\* with nothing in between, the second call returns what the first
\* returned, and after each of the two calls the packages, the virtual index
\* and all installed and conflicted counters are as before the first.
C20_Determinism ==
    Check2Returned =>
        /\ SameButMemos(univ, hist.pre)
        /\ hist.again # << >> =>
              /\ result.ret = hist.again[1].ret
              /\ SameButMemos(hist.pre, hist.again[1].pre)
              /\ SameButMemos(univ, hist.again[1].pre)

\* A search that had to backtrack has failed twice in a row.
C20_Witness ==
    /\ Check2Returned
    /\ hist.again # << >>
    /\ hist.again[1].how = "failure"
    /\ result.how = "failure"
    /\ result.ret = 0
    /\ hist.pruned # {}
    /\ SameButMemos(univ, hist.again[1].pre)

\* This step is a remove_binary that has removed a package.
RemovesPackage ==
    /\ hist'.nops = hist.nops + 1
    /\ result'.call = "remove_binary"
    /\ result'.ret = 1

\* A package that stays in the universe keeps its memo, but for a memo that
\* a successful search sets to YES and a YES memo that the removal of a
\* package resets whose mayaffect list names the package.
MemoStep ==
    \A n \in DOMAIN univ.packages \cap DOMAIN univ'.packages :
        univ'.packages[n].installable # univ.packages[n].installable =>
            IF univ.packages[n].installable = YES
            THEN /\ RemovesPackage
                 /\ n \in Range(univ.packages[result'.arg].mayaffect)
            ELSE /\ pc = "after"
                 /\ result'.how = "success"

\* C21 (monotone memo): a YES memo goes back to UNKNOWN only in
\* remove_package and only for a package named in the mayaffect list of the
\* removed package; add_package and checkinstallable reset no YES memo, and
\* remove_package leaves every other remaining memo as it is.
C21_MemoMonotone == [][MemoStep]_vars

\* The removal of b1 has reset the memo of b2, which b1's mayaffect list
\* named, and has left the YES memo of b, which it did not name.
C21_Witness ==
    /\ pc = "idle"
    /\ result.call = "remove_binary"
    /\ result.ret = 1
    /\ result.arg = "b1"
    /\ {"b", "b1", "b2"} \subseteq DOMAIN hist.pre.packages
    /\ {"b", "b2"} \subseteq DOMAIN univ.packages
    /\ "b2" \in Range(hist.pre.packages["b1"].mayaffect)
    /\ hist.pre.packages["b2"].installable = YES
    /\ univ.packages["b2"].installable = UNKNOWN
    /\ "b" \notin Range(hist.pre.packages["b1"].mayaffect)
    /\ hist.pre.packages["b"].installable = YES
    /\ univ.packages["b"].installable = YES

\* The dependency clauses of the packages of a universe, counted.
RECURSIVE TotalClauses(_, _)
TotalClauses(u, names) ==
    IF names = {} THEN 0
    ELSE LET n == CHOOSE x \in names : TRUE
         IN  Len(CountedClauses(u.packages[n].pkg, 1))
             + TotalClauses(u, names \ {n})

\* An iteration that neither leaves the loop nor moves the pointer moves
\* the cursor of the pointer's frame to a later alternative.
IterationAdvances ==
    (pc = "loop" /\ pc' = "loop" /\ crashed' = "no" /\ pointer' = pointer)
        => list'[pointer].curX > list[pointer].curX

\* A frame the pointer steps back from has no alternative left.
IterationBacktracks ==
    (pc = "loop" /\ pc' = "loop" /\ crashed' = "no"
        /\ pointer' # 0 /\ pointer' < pointer)
        => /\ pointer' = pointer - 1
           /\ list'[pointer].curX = 0

\* The frontier holds the root and at most one frame for every dependency
\* clause of the universe.
FrontierBounded ==
    Len(list) <= 1 + TotalClauses(univ, DOMAIN univ.packages)

\* C22: without the iteration counter the main loop of checkinstallable is
\* left again whenever it is entered, also when Depends and Conflicts form
\* cycles; every iteration moves the pointer forward, moves the cursor of
\* the pointer's frame to a later alternative or steps back, and the
\* frontier stays bounded.
C22_Termination ==
    /\ (pc = "loop") ~> (pc = "after")
    /\ [][IterationAdvances /\ IterationBacktracks]_vars
    /\ []FrontierBounded

\* The loop has been left with every subgoal met in a universe whose
\* Depends form a cycle, after a frame had moved to its second alternative.
C22_Witness ==
    /\ pc = "after"
    /\ pointer = 0
    /\ {"g", "s"} \subseteq DOMAIN univ.packages
    /\ \E i \in 1..Len(list) : list[i].curX > 1

\* The entries of a bucket that belong, or do not belong, to one package.
RECURSIVE EntriesOf(_, _, _)
EntriesOf(bucket, cpkg, own) ==
    IF bucket = << >> THEN << >>
    ELSE (IF (bucket[1].pkg = cpkg) = own THEN <<bucket[1]>> ELSE << >>)
         \o EntriesOf(Tail(bucket), cpkg, own)

\* Every bucket is in non-decreasing order of (priority, name).
BucketsOrdered ==
    \A n \in DOMAIN univ.virtualpkgs :
        \A i, j \in 1..Len(univ.virtualpkgs[n]) :
            i < j => packagecmp(univ.packages[univ.virtualpkgs[n][i].pkg].pkg,
                                univ.packages[univ.virtualpkgs[n][j].pkg].pkg) <= 0

\* The entry a package has under its own name is inserted before the
\* entries of its Provides, and stays in front of them.
OwnBeforeProvided ==
    \A n \in DOMAIN univ.virtualpkgs \cap DOMAIN univ.packages :
        \A i, j \in 1..Len(univ.virtualpkgs[n]) :
            (/\ univ.virtualpkgs[n][i].pkg = n
             /\ univ.virtualpkgs[n][j].pkg = n
             /\ univ.virtualpkgs[n][i].version # 0
             /\ univ.virtualpkgs[n][j].version = 0) => i < j

\* A step leaves the entries of every other package in the order they had.
OthersKeepOrder ==
    (hist'.nops = hist.nops + 1 /\ univ' # univ) =>
        \A n \in DOMAIN univ'.virtualpkgs \cup DOMAIN univ.virtualpkgs :
            EntriesOf(lookup_virtualpkgtbl(univ'.virtualpkgs, n),
                      result'.arg, FALSE)
                = EntriesOf(lookup_virtualpkgtbl(univ.virtualpkgs, n),
                            result'.arg, FALSE)

\* C23: after any sequence of add_package and remove_package every virtual
\* bucket is in non-decreasing order of (provider priority, provider name),
\* and entries that compare equal are in the order of their insertion.
C23_BucketOrder ==
    /\ [](BucketsOrdered /\ OwnBeforeProvided)
    /\ [][OthersKeepOrder]_vars

\* The bucket of x holds c before h (names), both before x's own entry,
\* that before the entry of x's Provides, and b of the higher priority
\* last, although b was added first.
C23_Witness ==
    /\ "x" \in DOMAIN univ.virtualpkgs
    /\ {"b", "c", "h", "x"} \subseteq DOMAIN univ.packages
    /\ LET bucket == univ.virtualpkgs["x"]
       IN  /\ Len(bucket) = 5
           /\ bucket[1].pkg = "c"
           /\ bucket[2].pkg = "h"
           /\ bucket[3] = [version |-> 1, pkg |-> "x"]
           /\ bucket[4] = [version |-> 0, pkg |-> "x"]
           /\ bucket[5].pkg = "b"
    /\ "b" \in DOMAIN hist.pre.packages

\* The entries of the bucket of an atom that the atom admits: all of them
\* for an atom without a relation, else those with a concrete version that
\* stands in the relation to the atom's version.
Admitted(u, dep) ==
    {e \in Range(lookup_virtualpkgtbl(u.virtualpkgs, dep.package)) :
        \/ dep.op = dr_NOOP
        \/ /\ e.version # 0
           /\ cmpversions(e.version, dep.op, dep.version)}

\* The providers the atoms of a clause admit.
MatchesOf(u, depopts) ==
    UNION {{e.pkg : e \in Admitted(u, dep)} : dep \in Range(depopts)}

\* The list holds exactly the providers the atoms admit.
ReturnsTheUnion ==
    result.call = "get_matching" =>
        Range(result.ret) = MatchesOf(univ, result.arg)

\* C24: get_matching returns the union over the atoms of the clause, each
\* provider listed once: every entry of the bucket for an atom without a
\* version relation, for a versioned atom the entries with a concrete
\* version that satisfies the relation, never an entry of a Provides.
C24_GetMatching ==
    /\ ReturnsTheUnion
    /\ result.call = "get_matching" =>
           \A i, j \in 1..Len(result.ret) :
               i # j => result.ret[i] # result.ret[j]

\* GETBIT: bit p of a bitmap, bit 0 the highest bit of word 0.
GetBit(bits, p) ==
    (bits[p \div WordBits + 1] \div Pow2(WordBits - 1 - (p % WordBits))) % 2

\* The bits from start on, size of them, are inside the bitmap and zero.
FreeRun(bits, start, size) ==
    /\ start + size <= Len(bits) * WordBits
    /\ \A p \in start..(start + size - 1) : GetBit(bits, p) = 0

\* The length of the longest run of zero bits.
LongestFree(bits) ==
    CHOOSE n \in 0..(Len(bits) * WordBits) :
        /\ \E a \in 0..(Len(bits) * WordBits) : FreeRun(bits, a, n)
        /\ \A m \in (n + 1)..(Len(bits) * WordBits) :
               \A a \in 0..(Len(bits) * WordBits) : ~FreeRun(bits, a, m)

\* C25: find_long_freebits leaves in (start, size) the longest run of zero
\* bits of the bitmap, whatever the bitmap holds: also when no word is
\* completely zero and when the run reaches the end of the bitmap.
C25_LongestRun ==
    result.call = "find_long_freebits" =>
        /\ FreeRun(mem.bits, result.ret.start, result.ret.size)
        /\ result.ret.size = LongestFree(mem.bits)

\* What find_long_freebits does find: when some run of zero words is
\* followed by a word that is not zero, a run of zero bits that cannot be
\* made longer at either end.
FindsMaximalRun ==
    (result.call = "find_long_freebits" /\ result.ret # result.arg) =>
        /\ FreeRun(mem.bits, result.ret.start, result.ret.size)
        /\ result.ret.size >= WordBits
        /\ result.ret.start > 0 => GetBit(mem.bits, result.ret.start - 1) = 1
        /\ GetBit(mem.bits, result.ret.start + result.ret.size) = 1

\* The chunks of a block that the caller holds.
LiveIn(m, id) == {c \in m.live : c.id = id}

\* n_used_chunks of every block is the number of its live chunks.
CountsLive ==
    \A i \in 1..Len(mem.blocks) :
        mem.blocks[i].n_used_chunks
            = Cardinality(LiveIn(mem, mem.blocks[i].id))

\* Every live chunk is in a block of the arena.
LiveInArena ==
    \A c \in mem.live : \E i \in 1..Len(mem.blocks) : mem.blocks[i].id = c.id

\* block_free gives the block of the chunk back exactly when the chunk was
\* its last and the block is not the head block; no other block goes.
ReleasesWhenEmpty ==
    (hist'.nops = hist.nops + 1 /\ result'.call = "block_free") =>
        LET id == result'.arg.id
            i == find_memblock(mem.blocks, id)
            gone == \A j \in 1..Len(mem'.blocks) : mem'.blocks[j].id # id
        IN  /\ gone <=> (LiveIn(mem, id) = {result'.arg} /\ i # 1)
            /\ \A j \in 1..Len(mem.blocks) :
                   j # i => \E k \in 1..Len(mem'.blocks) :
                                 mem'.blocks[k].id = mem.blocks[j].id

\* C26: in the bitmap arena n_used_chunks of a block is the number of its
\* live chunks, block_free returns a block to the system allocator exactly
\* when that number reaches 0 and the block is not the head block, and a
\* block that holds a live chunk is never released.
C26_BlockRelease ==
    /\ [](CountsLive /\ LiveInArena)
    /\ [][ReleasesWhenEmpty]_vars

\* The fifth call has released a block behind the head block with the free
\* of its last chunk, and the head block is left with its one live chunk.
C26_Witness ==
    /\ result.call = "block_free"
    /\ result.how = "released"
    /\ Len(mem.blocks) = 1
    /\ mem.blocks[1].n_used_chunks = 1
    /\ mem.live # {}
    /\ hist.nops = 5

\* The bytes of a chunk.
BytesOf(c) == c.addr..(c.addr + c.size - 1)

\* block_malloc2 does not hand out a chunk the caller still holds.
HandsOutFree ==
    (hist'.nops = hist.nops + 1 /\ result'.call = "block_malloc2") =>
        \A c \in mem.live : result'.ret # c.addr

\* The chunks the caller holds do not overlap.
ChunksDisjoint ==
    \A c, d \in mem.live : c # d => BytesOf(c) \cap BytesOf(d) = {}

\* Every chunk the caller holds lies inside one slab, and that slab was
\* cut into chunks of its size.
ChunksInOwnSlab ==
    \A c \in mem.live :
        LET k == c.addr \div ALLOC_SIZE
        IN  /\ k \in 1..Len(mem.slabs)
            /\ c.addr + c.size <= SlabAt(k) + ALLOC_SIZE
            /\ mem.slabs[k] * GRAN = c.size
            /\ (c.addr - SlabAt(k)) % c.size = 0

\* The chunks on the free list from address a on, at most n of them.
RECURSIVE OnList(_, _, _)
OnList(m, a, n) ==
    IF a = 0 \/ n = 0 \/ a \notin DOMAIN m.next THEN {}
    ELSE {a} \cup OnList(m, m.next[a], n - 1)

\* A free list holds chunks of its own size only, none of which the caller
\* holds, and it ends.
ListsOfOwnSize ==
    \A g \in 1..NUM_BLOCK_TYPES :
        /\ \A a \in OnList(mem, mem.heads[g], MaxPoolOps * SlabGrans + 1) :
               /\ a \div ALLOC_SIZE \in 1..Len(mem.slabs)
               /\ mem.slabs[a \div ALLOC_SIZE] = g
               /\ \A c \in mem.live : c.addr # a
               /\ mem.next[a] # GARBAGE
        /\ mem.heads[g] # GARBAGE

\* C27: in the pool of sized free lists a chunk that was handed out is not
\* handed out again before it is freed, the chunks cut from a slab do not
\* overlap and stay inside the slab, and every chunk comes from the free
\* list of its own granule count.
C27_SizedPool ==
    /\ [](ChunksDisjoint /\ ChunksInOwnSlab /\ ListsOfOwnSize)
    /\ [][HandsOutFree]_vars

\* A chunk of two granules that was freed has been handed out again from
\* its free list while the other chunk of its slab and a chunk of three
\* granules are still held.
C27_Witness ==
    /\ result.call = "block_malloc2"
    /\ result.how = "free list"
    /\ result.arg = 2 * GRAN
    /\ hist.nops = 5
    /\ Cardinality({c \in mem.live : c.size = 2 * GRAN}) = 2
    /\ \E c \in mem.live : c.size = 3 * GRAN

(***************************************************************************)
(* The list cells of a SourceNote and of its snapshots                     *)
(*                                                                         *)
(* One note, of source s1, with its per-architecture packagelists as       *)
(* chains of cells (struct packagelist: value, next) in the heap, and the  *)
(* snapshots the journal holds of it.  mem = [cells, live, undo]: cells    *)
(* maps the addresses in use to their cell, live is the note in            *)
(* sourcenotetbl, undo the snapshots of it, newest first.  The universes   *)
(* are left out: srcsn stays NoNote.                                       *)
(***************************************************************************)

\* The operations on the note in one behaviour.
MaxListOps == 3

\* block_malloc(sizeof(packagelist)): the first address that is not in use.
AllocCell(cells) ==
    CHOOSE c \in 1..(Cardinality(DOMAIN cells) + 1) :
        /\ c \notin DOMAIN cells
        /\ \A d \in 1..(c - 1) : d \in DOMAIN cells

\* insert_packagelist(where, v) with *where == n, the new cell at address c.
WithCell(cells, c, v, n) ==
    [d \in DOMAIN cells \cup {c} |->
        IF d = c THEN [value |-> v, next |-> n] ELSE cells[d]]

\* block_free(c, sizeof(packagelist))
WithoutCell(cells, c) == [d \in DOMAIN cells \ {c} |-> cells[d]]

\* free_packagelist(l)
RECURSIVE free_packagelist(_, _)
free_packagelist(cells, l) ==
    IF l = 0 \/ l \notin DOMAIN cells THEN cells
    ELSE free_packagelist(WithoutCell(cells, l), cells[l].next)

\* A list taken over as it is: the head of the original.
ShareList(cells, src) == [cells |-> cells, head |-> src]

\* The inner loop of copy_source_note: a new cell for every cell of the
\* original, appended at the end of the copy.
RECURSIVE CopyList(_, _)
CopyList(cells, src) ==
    IF src = 0 THEN [cells |-> cells, head |-> 0]
    ELSE LET c == AllocCell(cells)
             rest == CopyList(WithCell(cells, c, cells[src].value, 0),
                              cells[src].next)
         IN  [cells |-> [rest.cells EXCEPT ![c].next = rest.head], head |-> c]

\* The outer loop of copy_source_note from architecture i on; r holds the
\* heap and the heads copied so far.
RECURSIVE CopyArches(_, _, _)
CopyArches(r, srcn, i) ==
    IF i > srcn.n_arches THEN r
    ELSE LET l == CopyList(r.cells, srcn.binaries[i])
         IN  CopyArches([cells |-> l.cells,
                         binaries |-> Append(r.binaries, l.head)], srcn, i + 1)

\* copy_source_note(srcn) on the heap: the same source, lists of its own.
copy_note_cells(cells, srcn) ==
    LET r == CopyArches([cells |-> cells, binaries |-> << >>], srcn, 1)
    IN  [cells |-> r.cells,
         note |-> [source |-> srcn.source, n_arches |-> srcn.n_arches,
                   binaries |-> r.binaries]]

\* The leftovers list of remove_binaries_by_arch: the arch:all packages of
\* the list under SKIP_ARCHALL, in new cells.
RECURSIVE Leftovers(_, _, _)
Leftovers(cells, p, arch_all) ==
    IF p = 0 THEN [cells |-> cells, head |-> 0]
    ELSE IF arch_all = SKIP_ARCHALL /\ Pkg(cells[p].value).arch_all
    THEN LET c == AllocCell(cells)
             rest == Leftovers(WithCell(cells, c, cells[p].value, 0),
                               cells[p].next, arch_all)
         IN  [cells |-> [rest.cells EXCEPT ![c].next = rest.head], head |-> c]
    ELSE Leftovers(cells, cells[p].next, arch_all)

\* remove_binaries_by_arch on the list at head l: the list is freed and the
\* leftovers take its place.
remove_cells_by_arch(cells, l, arch_all) ==
    LET r == Leftovers(cells, l, arch_all)
    IN  [cells |-> free_packagelist(r.cells, l), head |-> r.head]

\* The cell of the list at p that holds a package called name, or 0.
RECURSIVE CellNamed(_, _, _)
CellNamed(cells, p, name) ==
    IF p = 0 THEN 0
    ELSE IF Pkg(cells[p].value).package = name THEN p
    ELSE CellNamed(cells, cells[p].next, name)

\* remove_packagelist(p) for the cell c of the list at head l.
remove_packagelist(cells, l, c) ==
    IF l = c THEN [cells |-> WithoutCell(cells, c), head |-> cells[c].next]
    ELSE [cells |-> [d \in DOMAIN cells \ {c} |->
                        IF cells[d].next = c
                        THEN [cells[d] EXCEPT !.next = cells[c].next]
                        ELSE cells[d]],
          head |-> l]

\* The loop of add_binaries_by_arch on the list at r.head: a package of the
\* list with the name of the new one is taken off first, then the new one is
\* inserted at the head.
RECURSIVE InsertEach(_, _, _, _)
InsertEach(r, packages, i, arch_all) ==
    IF i > Len(packages) THEN r
    ELSE IF arch_all = SKIP_ARCHALL /\ Pkg(packages[i]).arch_all
    THEN InsertEach(r, packages, i + 1, arch_all)
    ELSE LET old == CellNamed(r.cells, r.head, Pkg(packages[i]).package)
             q == IF old = 0 THEN r ELSE remove_packagelist(r.cells, r.head, old)
             c == AllocCell(q.cells)
         IN  InsertEach([cells |-> WithCell(q.cells, c, packages[i], q.head),
                         head |-> c], packages, i + 1, arch_all)

\* add_binaries_by_arch on the list at head l.
add_cells_by_arch(cells, l, src, archnum, arch_all) ==
    LET origarchnum == IndexOf(Src(src).archname, ArchNames[archnum], 1) IN
    IF origarchnum = 0 THEN [cells |-> cells, head |-> l]
    ELSE InsertEach([cells |-> cells, head |-> l],
                    Src(src).packages[origarchnum], 1, arch_all)

\* The loops of upgrade_source and undo_change over the architectures of the
\* old note: every list is freed.
RECURSIVE FreeArches(_, _, _)
FreeArches(cells, srcn, i) ==
    IF i > srcn.n_arches THEN cells
    ELSE FreeArches(remove_cells_by_arch(cells, srcn.binaries[i], DO_ARCHALL).cells,
                    srcn, i + 1)

\* new_source_note and the loop of upgrade_source that fills it, from
\* architecture i on.
RECURSIVE FillArches(_, _, _)
FillArches(r, src, i) ==
    IF i > Len(ArchNames) THEN r
    ELSE LET l == add_cells_by_arch(r.cells, 0, src, i, DO_ARCHALL)
         IN  FillArches([cells |-> l.cells,
                         binaries |-> Append(r.binaries, l.head)], src, i + 1)

\* The note upgrade_source builds for src.
NoteCells(cells, src) ==
    LET r == FillArches([cells |-> cells, binaries |-> << >>], src, 1)
    IN  [cells |-> r.cells,
         note |-> [source |-> src, n_arches |-> Len(ArchNames),
                   binaries |-> r.binaries]]

\* The versions of s1.
VersionsOfS1 == {id \in 1..Len(SrcTable) : Src(id).package = "s1"}

\* The lists of the note: the cells from p on, at most n of them.
RECURSIVE CellsFrom(_, _, _)
CellsFrom(cells, p, n) ==
    IF p = 0 \/ n = 0 \/ p \notin DOMAIN cells THEN << >>
    ELSE <<p>> \o CellsFrom(cells, cells[p].next, n - 1)

\* upgrade_source(srcsn, a version of s1); commit_changes(srcsn).
InitCells ==
    /\ \E src \in VersionsOfS1 : \E r \in {NoteCells(<< >>, src)} :
           mem = [cells |-> r.cells, live |-> r.note, undo |-> << >>]
    /\ univ = new_packages
    /\ pc = "idle"
    /\ list = << >>
    /\ last = 0
    /\ pointer = 0
    /\ counter = 0
    /\ result = NoResult
    /\ srcsn = NoNote
    /\ crashed = "no"
    /\ hist = NoHist

\* What every operation on the note leaves alone, and the count of them.
CellsOp(call, arg) ==
    /\ hist.nops < MaxListOps
    /\ hist' = [hist EXCEPT !.nops = @ + 1]
    /\ result' = Returned(call, arg, 0, "done")
    /\ UNCHANGED <<univ, pc, list, last, pointer, counter, srcsn, crashed>>

\* upgrade_source(srcsn, src) for a version of s1: the note is saved, its
\* lists are freed, and a new note is filled.
CellsUpgradeSource ==
    \E src \in VersionsOfS1 : \E s \in {copy_note_cells(mem.cells, mem.live)} :
        \E r \in {NoteCells(FreeArches(s.cells, mem.live, 1), src)} :
            /\ mem' = [cells |-> r.cells, live |-> r.note,
                       undo |-> <<s.note>> \o mem.undo]
            /\ CellsOp("upgrade_source", src)

\* upgrade_arch(srcsn, src, arch) for a version of s1.
CellsUpgradeArch ==
    \E src \in VersionsOfS1 : \E archnum \in 1..Len(ArchNames) :
        \E s \in {copy_note_cells(mem.cells, mem.live)} :
        \E l \in {remove_cells_by_arch(s.cells, mem.live.binaries[archnum],
                                       SKIP_ARCHALL)} :
        \E r \in {add_cells_by_arch(l.cells, l.head, src, archnum, SKIP_ARCHALL)} :
            /\ mem' = [cells |-> r.cells,
                       live |-> [mem.live EXCEPT !.binaries[archnum] = r.head],
                       undo |-> <<s.note>> \o mem.undo]
            /\ CellsOp("upgrade_arch", <<src, archnum>>)

\* An upgrade of another source that brings a binary with the name of one
\* of this note: the note is saved and the binary is taken off its list
\* (add_binaries_by_arch, lines 1758-1768).
CellsLoseBinary ==
    \E archnum \in 1..Len(ArchNames) :
        \E s \in {copy_note_cells(mem.cells, mem.live)} :
        \E c \in {CellsFrom(mem.cells, mem.live.binaries[archnum],
                            Cardinality(DOMAIN mem.cells))[k] :
                      k \in 1..Len(CellsFrom(mem.cells, mem.live.binaries[archnum],
                                             Cardinality(DOMAIN mem.cells)))} :
        \E r \in {remove_packagelist(s.cells, mem.live.binaries[archnum], c)} :
            /\ mem' = [cells |-> r.cells,
                       live |-> [mem.live EXCEPT !.binaries[archnum] = r.head],
                       undo |-> <<s.note>> \o mem.undo]
            /\ CellsOp("upgrade_source", <<"other", archnum, mem.cells[c].value>>)

\* undo_change(srcsn): the lists of the current note are freed and the
\* snapshot itself goes back into sourcenotetbl.
CellsUndoChange ==
    /\ mem.undo # << >>
    /\ mem' = [cells |-> FreeArches(mem.cells, mem.live, 1),
               live |-> Head(mem.undo), undo |-> Tail(mem.undo)]
    /\ CellsOp("undo_change", "")

\* free_source_note on every snapshot of the journal from i on.
RECURSIVE FreeSnapshots(_, _, _)
FreeSnapshots(cells, undo, i) ==
    IF i > Len(undo) THEN cells
    ELSE FreeSnapshots(FreeArches(cells, undo[i], 1), undo, i + 1)

\* commit_changes(srcsn)
CellsCommitChanges ==
    /\ mem.undo # << >>
    /\ mem' = [cells |-> FreeSnapshots(mem.cells, mem.undo, 1),
               live |-> mem.live, undo |-> << >>]
    /\ CellsOp("commit_changes", "")

NextCells ==
    \/ CellsUpgradeSource
    \/ CellsUpgradeArch
    \/ CellsLoseBinary
    \/ CellsUndoChange
    \/ CellsCommitChanges

SpecCells == InitCells /\ [][NextCells]_vars

\* The packages of a list in list order; -1 stands for a cell that is not
\* in use any more.
RECURSIVE ValuesFrom(_, _, _)
ValuesFrom(cells, p, n) ==
    IF p = 0 \/ n = 0 THEN << >>
    ELSE IF p \notin DOMAIN cells THEN <<-1>>
    ELSE <<cells[p].value>> \o ValuesFrom(cells, cells[p].next, n - 1)

\* What a note says: its Source and the packages of its lists.
Says(m, srcn) ==
    [source |-> srcn.source,
     binaries |-> [i \in 1..srcn.n_arches |->
                      ValuesFrom(m.cells, srcn.binaries[i],
                                 Cardinality(DOMAIN m.cells) + 1)]]

\* The cells of the lists of a note.
CellsOfNote(m, srcn) ==
    UNION {{CellsFrom(m.cells, srcn.binaries[i], Cardinality(DOMAIN m.cells))[k] :
               k \in 1..Len(CellsFrom(m.cells, srcn.binaries[i],
                                      Cardinality(DOMAIN m.cells)))} :
           i \in 1..srcn.n_arches}

\* A snapshot that stays in the journal over a step says after the step
\* what it said before.
SnapshotsKept ==
    \A k \in 1..Len(mem.undo) :
        k <= Len(mem'.undo) =>
            Says(mem', mem'.undo[Len(mem'.undo) - k + 1]) =
                Says(mem, mem.undo[Len(mem.undo) - k + 1])

\* The snapshot an operation saves says what the note said before the
\* operation, whatever the operation then did to the note.
SnapshotOfBefore ==
    Len(mem'.undo) = Len(mem.undo) + 1 =>
        Says(mem', Head(mem'.undo)) = Says(mem, mem.live)

\* No list of a snapshot has a cell in common with the live note or with
\* another snapshot, and every cell of every list is in use.
ListsOfItsOwn ==
    /\ \A i \in 1..Len(mem.undo) :
           /\ CellsOfNote(mem, mem.undo[i]) \cap CellsOfNote(mem, mem.live) = {}
           /\ \A j \in 1..Len(mem.undo) :
                  i # j => CellsOfNote(mem, mem.undo[i])
                               \cap CellsOfNote(mem, mem.undo[j]) = {}
           /\ \A a \in 1..mem.undo[i].n_arches :
                  -1 \notin {Says(mem, mem.undo[i]).binaries[a][k] :
                                k \in 1..Len(Says(mem, mem.undo[i]).binaries[a])}

\* The Source of a snapshot and the Packages of its lists are the objects
\* of the catalogue themselves.
ObjectsShared ==
    \A i \in 1..Len(mem.undo) :
        /\ mem.undo[i].source \in 1..Len(SrcTable)
        /\ \A c \in CellsOfNote(mem, mem.undo[i]) :
               mem.cells[c].value \in 1..Len(PkgTable)

\* C28: a snapshot in the journal has per-architecture lists of its own:
\* it says what the note said before the operation that saved it, and no
\* later mutation of the live note (a lost binary, added binaries,
\* upgrade_arch, upgrade_source) changes what it says, while its Source and
\* its Packages are the shared objects.
C28_SnapshotIsolation ==
    /\ [](ListsOfItsOwn /\ ObjectsShared)
    /\ [][SnapshotsKept /\ SnapshotOfBefore]_vars

\* Two snapshots are in the journal; the older one still lists c and b1 for
\* i386 while the live note, after a lost binary and an upgrade_arch whose
\* cells reuse addresses freed in between, lists other packages.
C28_Witness ==
    /\ Len(mem.undo) = 2
    /\ Says(mem, mem.undo[2]).binaries[1] = <<12, 11>>
    /\ Says(mem, mem.undo[1]).binaries[1] = <<12>>
    /\ Says(mem, mem.live).binaries[1] = <<14, 13, 12>>
    /\ result.call = "upgrade_arch"

\* The frontier has a frame for every Pre-Depends and Depends clause of
\* every package with installed > 0, with the packages that match the
\* clause as its goal.
FrontierCovers(u, l) ==
    \A n \in InstalledSet(u.packages) :
        \A k \in 1..Len(CountedClauses(u.packages[n].pkg, 1)) :
            \E i \in 1..Len(l) :
                l[i].instoneX = get_matching(u, CountedClauses(u.packages[n].pkg, 1)[k])

\* The walk has reached the end of the frontier: checkinstallable is about
\* to report success.
ReachedTheEnd == pc = "after" /\ crashed = "no" /\ pointer = 0 /\ counter # 0

\* An iteration that moves the pointer on to the next frame or past the
\* last one.
PointerAdvances ==
    /\ pc = "loop" /\ pc' = "loop" /\ crashed' = "no"
    /\ (pointer' = pointer + 1 \/ pointer' = 0)

\* C29 (frontier coverage): whenever the pointer moves on past a frame, and
\* when the walk has reached the end of the frontier, the frontier has a
\* frame for every Pre-Depends and Depends clause of every installed
\* package; also when a singleton frame that is already expanded is visited
\* again after a trim.
C29_FrontierCoverage ==
    /\ [](ReachedTheEnd => FrontierCovers(univ, list))
    /\ [][PointerAdvances => FrontierCovers(univ', list')]_vars

\* No two snapshots of a journal entry are of sources of the same name.
OnePerName(entry) ==
    \A i, j \in 1..Len(entry) :
        i # j => Src(entry[i].source).package # Src(entry[j].source).package

\* Every snapshot of the entry is the note its source name had in the
\* sources note sn, or the empty marker when sn had no note of that name.
SnapshotsOf(entry, sn) ==
    \A i \in 1..Len(entry) :
        LET n == Src(entry[i].source).package IN
        IF n \in DOMAIN sn.sources
        THEN entry[i] = sn.sources[n]
        ELSE entry[i].n_arches = 0 /\ entry[i].binaries = << >>

\* An operation that opens a journal entry has returned.
MutationReturned ==
    /\ NoteReturned
    /\ result.call \in {"upgrade_source", "upgrade_arch", "remove_source"}
    /\ srcsn.undo # << >>

\* C30: every entry of the undo journal holds at most one snapshot per
\* source name, and the snapshots of the entry of the latest operation are
\* the notes as they were immediately before that operation began (the
\* empty marker where no note existed); for any source catalogue.
C30_JournalEntries ==
    /\ NoteReturned => \A e \in 1..Len(srcsn.undo) : OnePerName(srcsn.undo[e])
    /\ MutationReturned => SnapshotsOf(srcsn.undo[1], hist.before)

\* The memos and the mayaffect lists of u are those of v.
SameMemos(u, v) ==
    /\ DOMAIN u.packages = DOMAIN v.packages
    /\ \A n \in DOMAIN u.packages :
           /\ u.packages[n].installable = v.packages[n].installable
           /\ u.packages[n].mayaffect = v.packages[n].mayaffect

\* C31 (recording on success): when checkinstallable2 succeeds from the
\* root r, r's memo is YES on return and every other package that had
\* installed > 0 at the moment of success has r in its mayaffect list; when
\* the search fails no memo and no mayaffect list has changed.
C31_RecordingOnSuccess ==
    /\ (Check2Returned /\ result.how = "success") =>
           /\ univ.packages[result.arg].installable = YES
           /\ \A n \in hist.support[result.arg] \ {result.arg} :
                  result.arg \in Range(univ.packages[n].mayaffect)
    /\ (Check2Returned /\ result.how = "failure") => SameMemos(univ, hist.pre)

\* The check of c has succeeded after backtracking, with z among the
\* packages it had installed, and z has c in its mayaffect list.
C31_Witness ==
    /\ Check2Returned
    /\ result.how = "success"
    /\ result.arg = "c"
    /\ "z" \in hist.support["c"]
    /\ Cardinality(hist.support["c"]) >= 4
    /\ "c" \in Range(univ.packages["z"].mayaffect)
    /\ "left behind" \in hist.pruned \/ "still installed" \in hist.pruned

\* I1 and its neighbours: no package is installed and conflicted at once, no
\* counter is below 0, and no installed package is matched by a Conflicts
\* atom of another installed package.
InstalledApart(u) ==
    /\ \A n \in DOMAIN u.packages :
           /\ u.packages[n].installed = 0 \/ u.packages[n].conflicted = 0
           /\ u.packages[n].installed >= 0
           /\ u.packages[n].conflicted >= 0
    /\ \A m, n \in InstalledSet(u.packages) :
           m # n => n \notin Range(get_matching(u, Pkg(u.packages[m].pkg).conflicts))

\* The assertions of the uninstall and of the install of the iteration that
\* is about to run hold.
IterationAsserts ==
    (pc = "loop" /\ crashed = "no" /\ counter - 1 > 0 /\ pointer # 0
        /\ ~SelectFaults(list, pointer)) =>
        LET sel == Select(univ, list, last, pointer)
            v == [univ EXCEPT !.packages = sel.packages]
            cur == SkipUninstallable(v, sel.list[pointer].instoneX,
                                     sel.list[pointer].curX)
        IN  /\ list[pointer].curX # 0 =>
                   uninstall_asserts(univ, CurValue(list[pointer]))
            /\ cur # 0 => install_asserts(v, sel.list[pointer].instoneX[cur])

\* The assertions of the uninstalls of the success branch, from frame p
\* back to the head of the list.
RECURSIVE WalkAsserts(_, _, _)
WalkAsserts(u, l, p) ==
    IF p = 0 THEN TRUE
    ELSE /\ uninstall_asserts(u, CurValue(l[p]))
         /\ WalkAsserts([u EXCEPT !.packages = uninstall(u, CurValue(l[p]))],
                        l, p - 1)

\* C32 (I1 inside the search): at every step of checkinstallable no package
\* is installed and conflicted at once, no installed package is matched by
\* a Conflicts atom of another installed package, and the assertions of
\* install and uninstall hold, also for a package that the same Conflicts
\* list matches twice and for one that provides a name it conflicts with.
C32_ConflictCounters ==
    /\ InstalledApart(univ)
    /\ IterationAsserts
    /\ ReachedTheEnd => WalkAsserts(univ, list, last)

\* In the middle of a search d1 is installed and h, which its Conflicts
\* list matches twice, has conflicted == 2; b stands in for h.
C32_Witness ==
    /\ pc = "loop"
    /\ "d1" \in DOMAIN univ.packages
    /\ univ.packages["d1"].pkg = 28
    /\ univ.packages["d1"].installed = 1
    /\ "h" \in DOMAIN univ.packages
    /\ univ.packages["h"].conflicted = 2
    /\ "b" \in DOMAIN univ.packages
    /\ univ.packages["b"].installed = 1

\* An iteration of the main loop is about to start.
AtLoopStart == pc = "loop" /\ crashed = "no" /\ pointer # 0 /\ counter - 1 > 0

\* Lines 1139-1145: every frame before the pointer has a selected
\* alternative whose package is installed and not conflicted.
EarlierFramesChosen ==
    \A i \in 1..(pointer - 1) :
        /\ list[i].curX # 0
        /\ univ.packages[CurValue(list[i])].installed > 0
        /\ univ.packages[CurValue(list[i])].conflicted = 0

\* Lines 1146-1155: no frame behind the pointer has a selected alternative,
\* and `last` is the tail of the list.
LaterFramesOpen ==
    /\ \A i \in (pointer + 1)..Len(list) : list[i].curX = 0
    /\ last = Len(list)

\* The cutoff of every frame at or before the pointer that has a selected
\* alternative is a live frame of the list, at or behind the frame.
CutoffsLive ==
    \A i \in 1..pointer :
        list[i].curX # 0 => list[i].cutoffX \in i..Len(list)

\* C33 (loop invariant of the search): at the start of every iteration
\* every frame before the pointer has a selected alternative whose package
\* has installed > 0 and conflicted == 0, every frame behind the pointer has
\* none, `last` is the tail of the frontier, and the cutoff of every frame
\* at or before the pointer is a live frame at or behind that frame.
C33_LoopInvariant ==
    AtLoopStart => EarlierFramesChosen /\ LaterFramesOpen /\ CutoffsLive

\* An iteration starts in the middle of the frontier after an earlier frame
\* has moved on to its second alternative, which trimmed the frontier; the
\* cutoff of that frame is a frame behind it.
C33_Witness ==
    /\ AtLoopStart
    /\ pointer >= 3
    /\ pointer < Len(list)
    /\ \E i \in 1..(pointer - 1) :
           list[i].curX = 2 /\ list[i].cutoffX > i

\* The loop has been left with the whole frontier walked.
FullyWalked == pc = "after" /\ crashed = "no" /\ pointer = 0

\* What follows a fully walked frontier is the report of success, with the
\* memo of the root set.
WalkedMeansSuccess ==
    FullyWalked =>
        /\ crashed' = "no"
        /\ result'.ret = 1
        /\ result'.how = "success"
        /\ univ'.packages[result.arg].installable = YES

\* C34: the budget-exhaustion branch is entered only while pointer refers
\* to a frame; for any budget a search whose frontier has been fully walked
\* when the counter reaches 0 is reported as success with the memo set.
C34_OverflowOnlyWithFrame ==
    /\ [](StoppedByCounter => pointer # 0)
    /\ [][WalkedMeansSuccess]_vars

\* The granules of a chunk the caller holds.
GranulesOf(c) ==
    (c.off \div ALIGN)..((c.off + ALIGNEDSIZE(c.size)) \div ALIGN - 1)

\* The granules of block id that belong to a chunk the caller holds.
LiveGranules(id) == UNION {GranulesOf(c) : c \in {d \in mem.live : d.id = id}}

\* The bump region [n_bytes, n_bytes + size) of a block holds no granule
\* of a live chunk.
BumpRegionFree ==
    \A i \in 1..Len(mem.blocks) :
        LET mb == mem.blocks[i] IN
        \A g \in (mb.n_bytes \div ALIGN)..((mb.n_bytes + mb.size) \div ALIGN - 1) :
            g \notin LiveGranules(mb.id)

\* A bit of the bitmap is set exactly when its granule is live.
BitsMatchChunks ==
    \A i \in 1..Len(mem.blocks) :
        \A g \in 0..(BlockWords * WordBits - 1) :
            (GetBit(mem.blocks[i].free, g) = 1) <=> (g \in LiveGranules(mem.blocks[i].id))

\* No two chunks the caller holds share a granule.
ChunksApart ==
    \A c, d \in mem.live :
        (c # d /\ c.id = d.id) => GranulesOf(c) \cap GranulesOf(d) = {}

\* C35 (no overlap in the bitmap arena): the bump region of a block holds
\* no granule of a live chunk, a bit of the bitmap is set exactly when its
\* granule belongs to a live chunk, and block_malloc never returns memory
\* that overlaps a live chunk.
C35_NoOverlap == BumpRegionFree /\ BitsMatchChunks /\ ChunksApart

(***************************************************************************)
(* freelist.c: mark_bits and the two counting functions on a bitmap        *)
(***************************************************************************)

\* The calls of mark_bits in one behaviour.
MaxMarks == 1

\* The words a bitmap is drawn from: empty, full, the lowest bit, two bits
\* in the middle.
SomeWords == {0, AllOnes, 1, 6}

\* A bitmap as memory.c declares it (line 42): the words of the granules
\* and one word more.
BitmapsWithSpare == UNION {[1..(s + 1) -> SomeWords] : s \in 1..MaxWords}

\* The positions of the granules of a bitmap with a spare word.
Granules(bits) == (Len(bits) - 1) * WordBits

InitBits ==
    /\ mem \in {[bits |-> b] : b \in BitmapsWithSpare}
    /\ univ = new_packages
    /\ pc = "idle"
    /\ list = << >>
    /\ last = 0
    /\ pointer = 0
    /\ counter = 0
    /\ result = NoResult
    /\ srcsn = NoNote
    /\ crashed = "no"
    /\ hist = NoHist

\* mark_bits on a range of granules, as block_malloc and block_free call
\* it; hist.before keeps the bitmap the call found.
MarkBits ==
    \E s \in 0..(Granules(mem.bits) - 1) :
    \E size \in 1..(Granules(mem.bits) - s) :
    \E setp \in BOOLEAN :
        /\ hist.nops < MaxMarks
        /\ mem' = [bits |-> mark_bits(mem.bits, s, size, setp)]
        /\ hist' = [hist EXCEPT !.before = mem.bits, !.nops = @ + 1]
        /\ result' = Returned("mark_bits",
                              [s |-> s, size |-> size, setp |-> setp],
                              0, "done")
        /\ UNCHANGED <<univ, pc, list, last, pointer, counter, srcsn, crashed>>

\* count_free_bits_back(bits, s), as block_free calls it (memory.c 309-313).
CountFreeBitsBack ==
    \E s \in 0..Granules(mem.bits) : \E shifted \in ShiftBySize(AllOnes) :
        /\ result' = Returned("count_free_bits_back", s,
                              count_free_bits_back(mem.bits, s, shifted),
                              "done")
        /\ UNCHANGED <<univ, pc, list, last, pointer, counter, srcsn,
                       crashed, hist, mem>>

\* count_free_bits_after(bits, s, end), as block_free calls it
\* (memory.c 314-318): end is the number of granules.
CountFreeBitsAfter ==
    \E s \in 0..(Granules(mem.bits) - 1) :
        /\ result' = Returned("count_free_bits_after", s,
                              count_free_bits_after(mem.bits, s,
                                                    Granules(mem.bits)),
                              "done")
        /\ UNCHANGED <<univ, pc, list, last, pointer, counter, srcsn,
                       crashed, hist, mem>>

NextBits == MarkBits \/ CountFreeBitsBack \/ CountFreeBitsAfter

SpecBits == InitBits /\ [][NextBits]_vars

\* The bit mark_bits(bits, s, size, setp) is to leave at position p of a
\* bitmap that was before.
BitMarked(before, s, size, setp, p) ==
    IF p \in s..(s + size - 1) THEN (IF setp THEN 1 ELSE 0)
    ELSE GetBit(before, p)

\* mark_bits has changed the bits of its range and no other.
OnlyTheRange ==
    result.call = "mark_bits" =>
        \A p \in 0..(Len(mem.bits) * WordBits - 1) :
            GetBit(mem.bits, p)
                = BitMarked(hist.before, result.arg.s, result.arg.size,
                            result.arg.setp, p)

\* Clearing the range that mark_bits has just set, and had found clear,
\* gives the bitmap back.
MarkThenClear ==
    (/\ result.call = "mark_bits"
     /\ result.arg.setp
     /\ FreeRun(hist.before, result.arg.s, result.arg.size)) =>
        mark_bits(mem.bits, result.arg.s, result.arg.size, FALSE) = hist.before

\* C39: mark_bits(bits, s, size, setp) with size > 0 changes exactly the
\* bits s .. s+size-1, to 1 when setp and to 0 otherwise, and leaves every
\* other bit of the bitmap as it was, for every s and size, also when the
\* range spans several words and ends on a word boundary; marking a range
\* and then clearing the same range restores the bitmap.
C39_ExactRange == OnlyTheRange /\ MarkThenClear

\* The number of zero bits immediately below position s, down to bit 0.
ZerosBelow(bits, s) ==
    CHOOSE n \in 0..s :
        /\ \A p \in (s - n)..(s - 1) : GetBit(bits, p) = 0
        /\ n < s => GetBit(bits, s - n - 1) = 1

\* The number of zero bits from position s upwards, not past end.
ZerosFrom(bits, s, end) ==
    CHOOSE n \in 0..(end - s) :
        /\ \A p \in s..(s + n - 1) : GetBit(bits, p) = 0
        /\ s + n < end => GetBit(bits, s + n) = 1

\* C40: count_free_bits_back(bits, s) is the number of consecutive zero
\* bits immediately below position s, and count_free_bits_after(bits, s,
\* end) the number of consecutive zero bits from s upwards and not past
\* end, for every bitmap and every s, also when s is on a word boundary.
C40_ZeroRuns ==
    /\ result.call = "count_free_bits_back" =>
           result.ret = ZerosBelow(mem.bits, result.arg)
    /\ result.call = "count_free_bits_after" =>
           result.ret = ZerosFrom(mem.bits, result.arg, Granules(mem.bits))

(***************************************************************************)
(* templates.h: the open-addressed hash table of HASH_IMPL, as dpkg.c      *)
(* instantiates it with strhash and strcmp                                 *)
(***************************************************************************)

\* SIZEOFHASHMAP, the POW2 of every table of dpkg.c.
SIZEOFHASHMAP == 1

\* h->size
TableSize == Pow2(SIZEOFHASHMAP)

\* strhash(x, pow) from the character at j on, with i so far; a string is
\* the sequence of its character codes.
RECURSIVE StrHashFrom(_, _, _, _)
StrHashFrom(x, j, i, pow) ==
    IF j > Len(x) THEN i
    ELSE StrHashFrom(x, j + 1, (i * 39 + x[j]) % Pow2(pow), pow)

strhash(x, pow) == StrHashFrom(x, 1, 0, pow)

\* The keys: the one-letter names from "a" on, one more than the table has
\* slots.
HashKeys == {<<c>> : c \in 97..(97 + TableSize)}

\* The values: two objects that are not NULL (0 is NULL).
HashValues == {1, 2}

\* A slot: key is << >> for NULL and <<k>> for a pointer to the string k.
EmptySlot == [key |-> << >>, value |-> 0]

\* new_TYPE(); n_collisions, which nothing reads, is left out.
new_table ==
    [hash |-> [i \in 0..(TableSize - 1) |-> EmptySlot], n_used |-> 0]

\* The table the calls leave when they refine a map: hist.expect holds the
\* value last stored under each key, 0 when there is none.
InitHash ==
    /\ mem = new_table
    /\ univ = new_packages
    /\ pc = "idle"
    /\ list = << >>
    /\ last = 0
    /\ pointer = 0
    /\ counter = 0
    /\ result = NoResult
    /\ srcsn = NoNote
    /\ crashed = "no"
    /\ hist = [NoHist EXCEPT !.expect = [k \in HashKeys |-> 0]]

\* Entry of lookup, add, replace or remove: i = HASH(k, POW2).
HashCall(call, k, v) ==
    /\ pc = "idle"
    /\ pc' = call
    /\ pointer' = strhash(k, SIZEOFHASHMAP)
    /\ result' = Returned(call, [k |-> k, v |-> v], 0, "running")
    /\ UNCHANGED <<univ, list, last, counter, srcsn, crashed, hist, mem>>

\* The return of a call with value ret, the table being h and the map m.
HashReturn(ret, h, m) ==
    /\ pc' = "idle"
    /\ pointer' = 0
    /\ result' = [result EXCEPT !.ret = ret, !.how = "done"]
    /\ mem' = h
    /\ hist' = [hist EXCEPT !.expect = m]
    /\ UNCHANGED <<univ, list, last, counter, srcsn, crashed>>

\* i = (i + 1) % (1 << POW2)
HashAdvance ==
    /\ pointer' = (pointer + 1) % Pow2(SIZEOFHASHMAP)
    /\ UNCHANGED <<univ, pc, list, last, counter, result, srcsn, crashed,
                   hist, mem>>

\* A slot that holds a value, whatever its key.
HitAnyKey(slot, k) == slot.value # 0

\* The two tests inside the loop of lookup (lines 218-219): CMP says the
\* key is k, and the value is not NULL.
lookup_hit(slot, k) == slot.key = <<k>> /\ slot.value # 0

LookupCall ==
    \E k \in HashKeys : crashed = "no" /\ HashCall("lookup", k, 0)

\* One test of the while loop of lookup (lines 217-224) and what follows.
LookupStep ==
    /\ pc = "lookup"
    /\ LET slot == mem.hash[pointer] IN
       IF slot.key # << >>
       THEN IF lookup_hit(slot, result.arg.k)
            THEN HashReturn(slot.value, mem, hist.expect)
            ELSE HashAdvance
       ELSE HashReturn(0, mem, hist.expect)

\* add is called for keys that have no entry.
AddCall ==
    \E k \in HashKeys : \E v \in HashValues :
        hist.expect[k] = 0 /\ HashCall("add", k, v)

\* The test of the while loop of add (line 233).
add_probes_on(slot) == slot.value # 0

\* One test of the while loop of add (lines 233-237) and what follows.
AddStep ==
    /\ pc = "add"
    /\ IF add_probes_on(mem.hash[pointer])
       THEN HashAdvance
       ELSE HashReturn(0,
                [mem EXCEPT !.n_used = @ + 1,
                            !.hash[pointer] = [key |-> <<result.arg.k>>,
                                               value |-> result.arg.v]],
                [hist.expect EXCEPT ![result.arg.k] = result.arg.v])

\* replace is called for keys that have an entry.
ReplaceCall ==
    \E k \in HashKeys : \E v \in HashValues :
        hist.expect[k] # 0 /\ HashCall("replace", k, v)

\* One test of the while loop of replace (lines 250-253) and what follows.
ReplaceStep ==
    /\ pc = "replace"
    /\ LET slot == mem.hash[pointer] IN
       IF slot.key # << >> /\ slot.key # <<result.arg.k>>
       THEN HashAdvance
       ELSE HashReturn(slot.value,
                [mem EXCEPT !.hash[pointer] = [key |-> <<result.arg.k>>,
                                               value |-> result.arg.v]],
                [hist.expect EXCEPT ![result.arg.k] = result.arg.v])

RemoveCall ==
    \E k \in HashKeys : crashed = "no" /\ HashCall("remove", k, 0)

\* One test of the while loop of remove (lines 265-268) and what follows.
RemoveStep ==
    /\ pc = "remove"
    /\ LET slot == mem.hash[pointer] IN
       IF slot.key # << >> /\ slot.key # <<result.arg.k>>
       THEN HashAdvance
       ELSE HashReturn(slot.value,
                [mem EXCEPT !.hash[pointer].value = 0,
                            !.n_used = IF slot.value # 0 THEN @ - 1 ELSE @],
                [hist.expect EXCEPT ![result.arg.k] = 0])

\* next_TYPE(i) on the table h: the iterator with i.h = NULL as done.
RECURSIVE next_iter(_, _)
next_iter(h, i) ==
    IF i < TableSize
    THEN IF h.hash[i].value # 0
         THEN [i |-> i + 1, done |-> FALSE,
               k |-> h.hash[i].key, v |-> h.hash[i].value]
         ELSE next_iter(h, i + 1)
    ELSE [i |-> i, done |-> TRUE, k |-> << >>, v |-> 0]

first_iter(h) == next_iter(h, 0)

\* The loop of iterate_TYPE (lines 174-180) from the iterator x on: what
\* itf is called with.
RECURSIVE IterateFrom(_, _)
IterateFrom(h, x) ==
    IF x.done THEN << >>
    ELSE <<[k |-> x.k, v |-> x.v]>> \o IterateFrom(h, next_iter(h, x.i))

IterateTable ==
    /\ pc = "idle"
    /\ result' = Returned("iterate", [k |-> << >>, v |-> 0],
                          IterateFrom(mem, first_iter(mem)), "done")
    /\ UNCHANGED <<univ, pc, list, last, pointer, counter, srcsn, crashed,
                   hist, mem>>

HashSteps == LookupStep \/ AddStep \/ ReplaceStep \/ RemoveStep

NextHash ==
    \/ LookupCall
    \/ AddCall
    \/ ReplaceCall
    \/ RemoveCall
    \/ IterateTable
    \/ LookupStep
    \/ AddStep
    \/ ReplaceStep
    \/ RemoveStep

SpecHash == InitHash /\ [][NextHash]_vars

\* A call that has been entered goes on running.
SpecHashLive == SpecHash /\ WF_vars(HashSteps)

\* The slots that hold or have held a key.
KeyedSlots == {i \in 0..(TableSize - 1) : mem.hash[i].key # << >>}

\* The keys that have an entry.
LiveKeys == {k \in HashKeys : hist.expect[k] # 0}

\* What lookup returned is what was last stored under the key.
LookupAsStored ==
    (result.call = "lookup" /\ result.how = "done") =>
        result.ret = hist.expect[result.arg.k]

\* Iteration has given every entry once.
IteratesOnce ==
    result.call = "iterate" =>
        /\ Len(result.ret) = Cardinality(LiveKeys)
        /\ Range(result.ret)
               = {[k |-> <<k>>, v |-> hist.expect[k]] : k \in LiveKeys}

C37_Terminates ==
    []((pc \in {"lookup", "add"} /\ mem.n_used < TableSize)
           => <>(pc = "idle"))

\* add does terminate whenever n_used < size, and lookup whenever a slot
\* has never held a key.
TerminatesWithEmptySlot ==
    /\ []((pc = "add" /\ mem.n_used < TableSize) => <>(pc = "idle"))
    /\ []((pc = "lookup" /\ Cardinality(KeyedSlots) < TableSize)
              => <>(pc = "idle"))

(***************************************************************************)
(* dpkg.c: read_package on one paragraph of a Packages file                *)
(***************************************************************************)

\* A C string is the sequence of its characters; the entry values that
\* read_paragraph leaves start after the colon and the spaces that follow
\* it and hold the rest of the line, the newline included when the line
\* has one.
priorities ==
    << <<"r", "e", "q", "u", "i", "r", "e", "d">>,
       <<"i", "m", "p", "o", "r", "t", "a", "n", "t">>,
       <<"s", "t", "a", "n", "d", "a", "r", "d">>,
       <<"o", "p", "t", "i", "o", "n", "a", "l">>,
       <<"e", "x", "t", "r", "a">> >>

\* tolower on the letters the inputs hold.
ToLower(c) ==
    CASE c = "R" -> "r" [] c = "I" -> "i" [] c = "S" -> "s"
      [] c = "O" -> "o" [] c = "E" -> "e" [] c = "A" -> "a"
      [] OTHER -> c

\* strcasecmp(a, b): 0 when the strings are the same but for case.
strcasecmp(a, b) ==
    IF Len(a) = Len(b) /\ \A j \in 1..Len(a) : ToLower(a[j]) = ToLower(b[j])
    THEN 0 ELSE 1

\* The loop over priorities as it would be with the test the other way
\* round: it stops at the name that is the value.
RECURSIVE ScanForEqual(_, _)
ScanForEqual(value, i) ==
    IF i < Len(priorities)
    THEN IF strcasecmp(priorities[i + 1], value) = 0 THEN i
         ELSE ScanForEqual(value, i + 1)
    ELSE i

\* The for loop of read_package over priorities (lines 382-385), from
\* index i on: the index it stops at, Len(priorities) for the NULL entry.
RECURSIVE ScanPriorities(_, _)
ScanPriorities(value, i) ==
    IF i < Len(priorities)
    THEN IF strcasecmp(priorities[i + 1], value) # 0 THEN i
         ELSE ScanPriorities(value, i + 1)
    ELSE i

IsSpace(c) == c \in {" ", "\n", "\t"}

\* The test of the Architecture entry (lines 392-398).
ArchAll(value) ==
    /\ Len(value) >= 3
    /\ strcasecmp(SubSeq(value, 1, 3), <<"a", "l", "l">>) = 0
    /\ (Len(value) = 3 \/ IsSpace(value[4]))

\* new_package()
new_package ==
    [package |-> << >>, version |-> << >>, priority |-> 0, arch_all |-> 0,
     died |-> FALSE]

\* The body of the loop of read_package for the entry e, pkg being the
\* package so far; died says that die was called.
ReadEntry(pkg, e) ==
    IF pkg.died THEN pkg
    ELSE IF e.name = "Package"
    THEN [pkg EXCEPT !.package = SubSeq(e.value, 1, Len(e.value) - 1)]
    ELSE IF e.name = "Version"
    THEN [pkg EXCEPT !.version = SubSeq(e.value, 1, Len(e.value) - 1)]
    ELSE IF e.name = "Priority"
    THEN LET i == ScanPriorities(e.value, 0) IN
         [pkg EXCEPT !.priority = i, !.died = (i = Len(priorities))]
    ELSE IF e.name = "Architecture" /\ ArchAll(e.value)
    THEN [pkg EXCEPT !.arch_all = 1]
    ELSE pkg

\* The loop of read_package over the entries of para from entry j on.
RECURSIVE ReadEntries(_, _, _)
ReadEntries(para, j, pkg) ==
    IF j > Len(para) THEN pkg
    ELSE ReadEntries(para, j + 1, ReadEntry(pkg, para[j]))

\* read_package on the paragraph para, which has no Source entry and no
\* entries of dependencies.
read_package(para) == ReadEntries(para, 1, new_package)

\* The Priority values of the input: every name of priorities and one
\* that is none, as a line with its newline, as the last line of a file
\* that ends without one, and with a capital.
PriorityWords == Range(priorities) \cup {<<"b", "o", "g", "u", "s">>}

Capital(w) ==
    [j \in 1..Len(w) |->
        IF j = 1
        THEN CASE w[1] = "r" -> "R" [] w[1] = "i" -> "I" [] w[1] = "s" -> "S"
               [] w[1] = "o" -> "O" [] w[1] = "e" -> "E" [] OTHER -> w[1]
        ELSE w[j]]

PriorityValues ==
    {w \o <<"\n">> : w \in PriorityWords}
        \cup PriorityWords
        \cup {Capital(w) \o <<"\n">> : w \in PriorityWords}

PackageValues == {<<"a", "\n">>, <<"b", "\n">>}

ArchValues ==
    {<<"a", "l", "l", "\n">>, <<"i", "3", "8", "6", "\n">>,
     <<"a", "l", "p", "h", "a", "\n">>}

\* The paragraphs read_paragraph hands to read_package.
Paragraphs ==
    {<<[name |-> "Package", value |-> n],
       [name |-> "Version", value |-> <<"1", "\n">>],
       [name |-> "Architecture", value |-> a],
       [name |-> "Priority", value |-> v]>> :
        n \in PackageValues, a \in ArchValues, v \in PriorityValues}

InitPackage ==
    /\ mem \in {[para |-> P] : P \in Paragraphs}
    /\ univ = new_packages
    /\ pc = "idle"
    /\ list = << >>
    /\ last = 0
    /\ pointer = 0
    /\ counter = 0
    /\ result = NoResult
    /\ srcsn = NoNote
    /\ crashed = "no"
    /\ hist = NoHist

\* read_package(f) on the paragraph that is next in the file.
ReadPackage ==
    /\ result.call = "none"
    /\ LET pkg == read_package(mem.para) IN
       result' = Returned("read_package", mem.para[4].value, pkg,
                          IF pkg.died THEN "die" ELSE "done")
    /\ UNCHANGED <<univ, pc, list, last, pointer, counter, srcsn, crashed,
                   hist, mem>>

NextPackage == ReadPackage

SpecPackage == InitPackage /\ [][NextPackage]_vars

\* The word of a value: the value without the newline at its end.
WordOf(value) ==
    IF Len(value) > 0 /\ value[Len(value)] = "\n"
    THEN SubSeq(value, 1, Len(value) - 1)
    ELSE value

\* C38: read_package maps the Priority values required, important,
\* standard, optional and extra to the ranks 0 to 4, and a paragraph whose
\* Priority is none of these is a fatal parse failure.
C38_PriorityRanks ==
    result.call = "read_package" =>
        LET rank == ScanForEqual(WordOf(result.arg), 0) IN
        IF rank < Len(priorities)
        THEN result.how = "done" /\ result.ret.priority = rank
        ELSE result.how = "die"

\* What read_package does: it never fails on a Priority, and the rank is 1
\* for a value that is required to its very end and 0 for any other.
RankOfFirstDifference ==
    result.call = "read_package" =>
        /\ result.how = "done"
        /\ result.ret.priority
               = IF strcasecmp(priorities[1], result.arg) = 0 THEN 1 ELSE 0

====
